---- MODULE Spec2Model ----
(***************************************************************************)
(* Board representation and move-state engine of ben-hickman/ChessEngine.  *)
(* The state is the Board object (gameBoard), the Move object (makeMove),  *)
(* and whether the event loop is still running.  Every handler of the      *)
(* event loop is one action; every function of the source is an operator   *)
(* that computes what the function computes, in the order it computes it.  *)
(*                                                                         *)
(* Representation choices:                                                 *)
(*  - a 64-bit bitboard is the set of its set bit positions (0..63);       *)
(*  - a 64-bit hash key is the set of random keys XOR-ed into it, every    *)
(*    random key being a generator of its own (XOR = symmetric             *)
(*    difference): two hashes are equal here iff they are equal for every  *)
(*    key table;                                                           *)
(*  - a Python string is the sequence of its characters;                   *)
(*  - an unhandled Python exception stops the event loop (running=FALSE)   *)
(*    with the objects as they were when it was raised.                    *)
(***************************************************************************)
EXTENDS Integers, Sequences, FiniteSets, TLC

VARIABLES gameBoard, makeMove, running, events, probe

vars == <<gameBoard, makeMove, running, events, probe>>

(***************************************************************************)
(* enums.py                                                                *)
(***************************************************************************)
NO_SQUARE == 99
OFF_BOARD == 100

EMPTY == 0
wP == 1
wN == 2
wB == 3
wR == 4
wQ == 5
wK == 6
bP == 7
bN == 8
bB == 9
bR == 10
bQ == 11
bK == 12

FILE_A == 0

RANK_1 == 0
RANK_2 == 1
RANK_3 == 2
RANK_6 == 5
RANK_7 == 6
RANK_8 == 7

WHITE == 0
BLACK == 1
BOTH == 2

WKCA == 1
WQCA == 2
BKCA == 4
BQCA == 8

FROM_MASK == 127
TO_MASK == 16256
TO_SHIFT == 7
CAPTURED_MASK == 245760
CAPTURED_SHIFT == 14
EN_PASSANT_MASK == 262144
PAWN_START_MASK == 524288
PROMOTED_PIECE_MASK == 15728640
PROMOTED_Q_MASK == 1048576
PROMOTED_N_MASK == 2097152
PROMOTED_R_MASK == 4194304
PROMOTED_B_MASK == 8388608
CASTLING_MASK == 16777216

(***************************************************************************)
(* Python's integer operators on non-negative integers.                    *)
(***************************************************************************)
RECURSIVE BitAnd(_, _)
BitAnd(a, b) ==
    IF a = 0 \/ b = 0 THEN 0
    ELSE ((a % 2) * (b % 2)) + 2 * BitAnd(a \div 2, b \div 2)

RECURSIVE BitOr(_, _)
BitOr(a, b) ==
    IF a = 0 THEN b
    ELSE IF b = 0 THEN a
    ELSE (IF (a % 2) + (b % 2) > 0 THEN 1 ELSE 0) + 2 * BitOr(a \div 2, b \div 2)

RECURSIVE Pow2(_)
Pow2(n) == IF n = 0 THEN 1 ELSE 2 * Pow2(n - 1)

\* a << n that shifts one bit less
ShiftLeftOneLess(a, n) == a * Pow2(n - 1)

ShiftLeft(a, n) == a * Pow2(n)

ShiftRight(a, n) == a \div Pow2(n)

\* x ^ y on two hash keys (sets of generators).
Xor(x, y) == (x \ y) \cup (y \ x)

\* sequence helpers
Range(s) == {s[i] : i \in DOMAIN s}

(***************************************************************************)
(* data.py: square geometry and piece tables                               *)
(***************************************************************************)
\* file_rank_to_index with one border column per rank instead of two
file_rank_to_index_narrow(index) == (index \div 8) + 21 + index

file_rank_to_index(index) == ((index \div 8) * 2) + 21 + index

\* The loop of data.py lines 58-62 writes FilesBrd[sq] and RanksBrd[sq] for
\* rank 0..7, file 0..7 in that order; a later write overwrites an earlier.
RECURSIVE BrdLoop(_, _, _)
BrdLoop(i, files, ranks) ==
    IF i = 64 THEN [FilesBrd |-> files, RanksBrd |-> ranks]
    ELSE LET rank == i \div 8
             file == i % 8
             sq == file_rank_to_index(rank * 8 + file)
         IN BrdLoop(i + 1, [files EXCEPT ![sq] = file], [ranks EXCEPT ![sq] = rank])

BrdTables == BrdLoop(0, [sq \in 0..119 |-> OFF_BOARD], [sq \in 0..119 |-> OFF_BOARD])

FilesBrd == BrdTables.FilesBrd

RanksBrd == BrdTables.RanksBrd

\* indexed by piece 0..12 (a TLA+ sequence starts at 1)
PieceMajTable == <<FALSE, FALSE, FALSE, FALSE, TRUE, TRUE, TRUE,
                   FALSE, FALSE, FALSE, TRUE, TRUE, TRUE>>

PieceMinTable == <<FALSE, FALSE, TRUE, TRUE, FALSE, FALSE, FALSE,
                   FALSE, TRUE, TRUE, FALSE, FALSE, FALSE>>

PieceValTable == <<0, 100, 325, 325, 550, 1000, 50000,
                   100, 325, 325, 550, 1000, 50000>>

PieceColTable == <<2, 0, 0, 0, 0, 0, 0, 1, 1, 1, 1, 1, 1>>

PieceMaj(piece) == PieceMajTable[piece + 1]

PieceMin(piece) == PieceMinTable[piece + 1]

PieceVal(piece) == PieceValTable[piece + 1]

PieceCol(piece) == PieceColTable[piece + 1]

KnightDirection == <<-21, -19, -12, -8, 8, 12, 19, 21>>

BishopDirection == <<-11, -9, 9, 11>>

RookDirection == <<-10, -1, 1, 10>>

whitePromPieces == <<wQ, wN, wR, wB>>

blackPromPieces == <<bQ, bN, bR, bB>>

(***************************************************************************)
(* bitboards.py                                                            *)
(***************************************************************************)
\* setMask[i] = 1 << i, for i in 0..63 (init_bitmasks)
setMask(i) == {i}

\* bitboard.value |= setMask[sq]; the same (mutated) object is returned
set_bit(bitboard, sq) == bitboard \cup setMask(sq)

Lowest(bitboard) == CHOOSE b \in bitboard : \A c \in bitboard : b <= c

\* CountBits clears the lowest set bit of the object it is given until the
\* object is zero: it returns the count and leaves the object at zero.
RECURSIVE CountBitsLoop(_, _)
CountBitsLoop(bitboard, count) ==
    IF bitboard = {} THEN [count |-> count, bitboard |-> bitboard]
    ELSE CountBitsLoop(bitboard \ {Lowest(bitboard)}, count + 1)

CountBits(bitboard) == CountBitsLoop(bitboard, 0)

(***************************************************************************)
(* board.py: Board.init_board_maps                                         *)
(***************************************************************************)
RECURSIVE MapsLoop(_, _, _)
MapsLoop(sq64, m64, m120) ==
    IF sq64 = 64 THEN [map64To120 |-> m64, map120To64 |-> m120]
    ELSE LET rank == sq64 \div 8
             file == sq64 % 8
             sq == file_rank_to_index(rank * 8 + file)
         IN MapsLoop(sq64 + 1, [m64 EXCEPT ![sq64] = sq], [m120 EXCEPT ![sq] = sq64])

\* both ctypes arrays start zeroed (board.py lines 39-40)
init_board_maps == MapsLoop(0, [d \in 0..63 |-> 0], [p \in 0..119 |-> 0])

map64To120 == init_board_maps.map64To120

map120To64 == init_board_maps.map120To64

(***************************************************************************)
(* hashkeys.py                                                             *)
(***************************************************************************)
pieceKeys(piece, sq) == {piece * 120 + sq}

turnKey == {13 * 120}

castleKeys(castle) == {13 * 120 + 1 + castle}

\* finalKey ^= pieceKeys[piece][sq] for sq in range(lo, hi): the value XOR-ed
\* into finalKey by that part of the loop (XOR is associative, so the range is
\* folded as its two halves)
RECURSIVE KeyLoop(_, _, _)
KeyLoop(lo, hi, pieces) ==
    IF hi - lo = 1
    THEN LET piece == pieces[lo]
         IN IF piece # NO_SQUARE /\ piece # EMPTY /\ piece # OFF_BOARD
            THEN pieceKeys(piece, lo)
            ELSE {}
    ELSE LET mid == (lo + hi) \div 2
         IN Xor(KeyLoop(lo, mid, pieces), KeyLoop(mid, hi, pieces))

\* a hash that also folds in the ply counter
generate_pos_key_with_ply(b) ==
    LET k1 == Xor({}, KeyLoop(0, 120, b.pieces))
        k2 == IF b.turn = WHITE THEN Xor(k1, turnKey) ELSE k1
        k3 == IF b.enPassant # NO_SQUARE
              THEN Xor(k2, pieceKeys(EMPTY, b.enPassant)) ELSE k2
    IN Xor(k3, castleKeys((b.castle + b.hisply) % 16))

generate_pos_key(b) ==
    LET WithTurn(k1) == IF b.turn = WHITE THEN Xor(k1, turnKey) ELSE k1
        WithEnPassant(k2) == IF b.enPassant # NO_SQUARE
                             THEN Xor(k2, pieceKeys(EMPTY, b.enPassant)) ELSE k2
    IN Xor(WithEnPassant(WithTurn(Xor({}, KeyLoop(0, 120, b.pieces)))),
           castleKeys(b.castle))

(***************************************************************************)
(* board.py: Board.reset_materials, Board.update_materials                 *)
(***************************************************************************)
reset_materials(b) ==
    [b EXCEPT !.pawns = [i \in 0..2 |-> {}],
              !.kingSquare = [i \in 0..1 |-> 0],
              !.pceNum = [i \in 0..12 |-> 0],
              !.bigPce = [i \in 0..1 |-> 0],
              !.majPce = [i \in 0..1 |-> 0],
              !.minPce = [i \in 0..1 |-> 0],
              !.material = [i \in 0..1 |-> 0],
              !.pList = [i \in 0..12 |-> [j \in 0..9 |-> 0]]]

\* one iteration of the loop over sq120 (lines 144-174); r = [b, raised]
MaterialsStep(r, sq120) ==
    LET b == r.b
        piece == b.pieces[sq120]
    IN IF r.raised \/ piece = NO_SQUARE \/ piece = OFF_BOARD \/ piece = EMPTY
       THEN r
       ELSE
        LET colour == PieceCol(piece)
            b1 == IF piece = wP
                  THEN [b EXCEPT !.pawns[WHITE] = set_bit(@, map120To64[sq120]),
                                 !.pawns[BOTH] = set_bit(@, map120To64[sq120])]
                  ELSE IF piece = bP
                  THEN [b EXCEPT !.pawns[BLACK] = set_bit(@, map120To64[sq120]),
                                 !.pawns[BOTH] = set_bit(@, map120To64[sq120])]
                  ELSE IF piece = wK \/ piece = bK
                  THEN [b EXCEPT !.kingSquare[colour] = sq120,
                                 !.majPce[colour] = @ + 1,
                                 !.bigPce[colour] = @ + 1]
                  ELSE IF PieceMaj(piece)
                  THEN [b EXCEPT !.majPce[colour] = @ + 1,
                                 !.bigPce[colour] = @ + 1]
                  ELSE IF PieceMin(piece)
                  THEN [b EXCEPT !.minPce[colour] = @ + 1,
                                 !.bigPce[colour] = @ + 1]
                  ELSE b
            Listed(b2) ==
              IF b2.pceNum[piece] > 9
              THEN [b |-> b2, raised |-> TRUE]  \* IndexError on the 10-slot row
              ELSE [b |-> [b2 EXCEPT !.pList[piece][b2.pceNum[piece]] = sq120,
                                     !.pceNum[piece] = @ + 1],
                    raised |-> FALSE]
        IN Listed([b1 EXCEPT !.material[colour] = @ + PieceVal(piece)])

\* for sq120 in range(lo, hi): the first half of the range, then (unless an
\* exception left the loop) the second half
RECURSIVE MaterialsLoop(_, _, _)
MaterialsLoop(r, lo, hi) ==
    IF hi - lo = 1 THEN MaterialsStep(r, lo)
    ELSE LET mid == (lo + hi) \div 2
             SecondHalf(firstHalf) ==
               IF firstHalf.raised THEN firstHalf ELSE MaterialsLoop(firstHalf, mid, hi)
         IN SecondHalf(MaterialsLoop(r, lo, mid))

\* returns [b |-> the board, raised |-> whether an exception left the loop]
update_materials(b) ==
    LET Keyed(r) ==
          IF r.raised THEN r
          ELSE [b |-> [r.b EXCEPT !.posKey = generate_pos_key(r.b)], raised |-> FALSE]
    IN Keyed(MaterialsLoop([b |-> reset_materials(b), raised |-> FALSE], 0, 120))

(***************************************************************************)
(* Python strings and lists                                                *)
(***************************************************************************)
\* s[n:]
Drop(s, n) == IF n >= Len(s) THEN <<>> ELSE SubSeq(s, n + 1, Len(s))

\* printable ASCII, from chr(32) on (chr34, chr92 and chr96 stand for the
\* quote, the backslash and the backtick)
Ascii == <<" ", "!", "chr34", "#", "$", "%", "&", "'", "(", ")", "*", "+", ",", "-",
           ".", "/", "0", "1", "2", "3", "4", "5", "6", "7", "8", "9", ":", ";",
           "<", "=", ">", "?", "@", "A", "B", "C", "D", "E", "F", "G", "H", "I",
           "J", "K", "L", "M", "N", "O", "P", "Q", "R", "S", "T", "U", "V", "W",
           "X", "Y", "Z", "[", "chr92", "]", "^", "_", "chr96", "a", "b", "c", "d", "e",
           "f", "g", "h", "i", "j", "k", "l", "m", "n", "o", "p", "q", "r", "s",
           "t", "u", "v", "w", "x", "y", "z", "{", "|", "}", "~">>

ord(c) == 31 + (CHOOSE i \in DOMAIN Ascii : Ascii[i] = c)

\* str(n) for n >= 0
RECURSIVE str(_)
str(n) == IF n < 10 THEN <<Ascii[17 + n]>> ELSE str(n \div 10) \o <<Ascii[17 + (n % 10)]>>

(***************************************************************************)
(* board.py: Board.read_fen                                                *)
(***************************************************************************)
STARTING_POS_FEN ==
    <<"r", "n", "b", "q", "k", "b", "n", "r", "/",
      "p", "p", "p", "p", "p", "p", "p", "p", "/",
      "8", "/", "8", "/", "8", "/", "8", "/",
      "P", "P", "P", "P", "P", "P", "P", "P", "/",
      "R", "N", "B", "Q", "K", "B", "N", "R", " ",
      "w", " ", "K", "Q", "k", "q", " ", "-", " ", "0", " ", "1">>

FenPieceChars == {"P", "N", "B", "R", "Q", "K", "p", "n", "b", "r", "q", "k"}

FenPiece(char) ==
    CASE char = "P" -> wP [] char = "N" -> wN [] char = "B" -> wB
      [] char = "R" -> wR [] char = "Q" -> wQ [] char = "K" -> wK
      [] char = "p" -> bP [] char = "n" -> bN [] char = "b" -> bB
      [] char = "r" -> bR [] char = "q" -> bQ [] char = "k" -> bK

FenDigits == {"1", "2", "3", "4", "5", "6", "7", "8"}

\* the loop `for _ in range(count)` of lines 274-279; s is the parse state
RECURSIVE FenCells(_, _)
FenCells(s, count) ==
    IF count = 0 \/ s.raised THEN s
    ELSE LET sq64 == s.rank * 8 + s.file
         IN IF sq64 > 63
            THEN [s EXCEPT !.raised = TRUE]          \* map64To120[sq64]: IndexError
            ELSE LET sq120 == map64To120[sq64]
                 IN FenCells([s EXCEPT !.sq120 = sq120,
                                       !.b.pieces[sq120] = s.piece,
                                       !.file = @ + 1], count - 1)

\* the while loop of lines 241-287
RECURSIVE FenPlacement(_)
FenPlacement(s) ==
    IF s.raised \/ s.rank < RANK_1 \/ s.fen = <<>> THEN s
    ELSE
      LET char == s.fen[1]
      IN IF char = "/" \/ char = " "
         THEN FenPlacement([s EXCEPT !.file = FILE_A, !.rank = @ - 1,
                                     !.fen = Drop(s.fen, 1)])
         ELSE
           LET piece == IF char \in FenPieceChars THEN FenPiece(char)
                        ELSE IF char \in FenDigits THEN EMPTY
                        ELSE s.piece                              \* case _: pass
               count == IF char \in FenDigits THEN ord(char) - 48 ELSE 1
               s1 == FenCells([s EXCEPT !.piece = piece], count)
               s2 == IF s1.raised THEN s1
                     ELSE IF char = "K" THEN [s1 EXCEPT !.b.kingSquare[0] = s1.sq120]
                     ELSE IF char = "k" THEN [s1 EXCEPT !.b.kingSquare[1] = s1.sq120]
                     ELSE s1
           IN FenPlacement([s2 EXCEPT !.fen = Drop(s2.fen, 1)])

\* the loop `for _ in range(4)` of lines 292-304; r = [b, fen, raised]
RECURSIVE FenCastle(_, _)
FenCastle(r, n) ==
    IF n = 0 \/ r.raised THEN r
    ELSE IF r.fen = <<>> THEN [r EXCEPT !.raised = TRUE]        \* fen[0]: IndexError
    ELSE IF r.fen[1] = " " THEN r
    ELSE LET char == r.fen[1]
             bit == CASE char = "K" -> WKCA [] char = "Q" -> WQCA
                      [] char = "k" -> BKCA [] char = "q" -> BQCA
                      [] OTHER -> 0
         IN FenCastle([r EXCEPT !.b.castle = BitOr(@, bit), !.fen = Drop(r.fen, 1)],
                      n - 1)

\* returns [b |-> the board, raised |-> whether an exception was raised]
read_fen(b, fen) ==
    LET s == FenPlacement([rank |-> RANK_8, file |-> FILE_A, piece |-> 0, fen |-> fen,
                           b |-> b, sq120 |-> 0, raised |-> FALSE])
    IN IF s.raised \/ s.fen = <<>> THEN [b |-> s.b, raised |-> TRUE]
       ELSE
        LET b1 == [s.b EXCEPT !.side = IF s.fen[1] = "w" THEN WHITE ELSE BLACK]
            c == FenCastle([b |-> b1, fen |-> Drop(s.fen, 2), raised |-> FALSE], 4)
            fen3 == Drop(c.fen, 1)
        IN IF c.raised \/ fen3 = <<>> THEN [b |-> c.b, raised |-> TRUE]
           ELSE IF fen3[1] = "-" THEN [b |-> c.b, raised |-> FALSE]
           ELSE IF Len(fen3) < 2 THEN [b |-> c.b, raised |-> TRUE]
           ELSE LET file == ord(fen3[1]) - 97
                    rank == ord(fen3[2]) - 49
                IN [b |-> [c.b EXCEPT !.enPassant = file_rank_to_index(rank * 8 + file)],
                    raised |-> FALSE]

(***************************************************************************)
(* board.py: Board.check_board                                             *)
(***************************************************************************)
\* an int compared with an Enum member (enums.Rank.RANK_6, not its .value)
\* is never equal
IntEqEnumMember(i, memberValue) == FALSE

\* one iteration of the rescan loop of lines 353-370; t holds the temp arrays,
\* t.raised an IndexError of the table lookups (a cell value above 12)
RescanStep(t, piece) ==
    IF piece = NO_SQUARE \/ piece = OFF_BOARD \/ piece = EMPTY THEN t
    ELSE IF piece \notin 0..12 THEN [t EXCEPT !.raised = TRUE]
    ELSE LET tempColour == PieceCol(piece)
             t1 == IF PieceMaj(piece)
                   THEN [t EXCEPT !.tempMajPce[tempColour] = @ + 1,
                                  !.tempBigPce[tempColour] = @ + 1]
                   ELSE IF PieceMin(piece)
                   THEN [t EXCEPT !.tempMinPce[tempColour] = @ + 1,
                                  !.tempBigPce[tempColour] = @ + 1]
                   ELSE t
         IN [t1 EXCEPT !.tempMaterial[tempColour] = @ + PieceVal(piece),
                       !.tempPceNum[piece] = @ + 1]

\* for sq120 in range(lo, hi): the first half of the range, then (unless an
\* exception left the loop) the second half
RECURSIVE RescanLoop(_, _, _, _)
RescanLoop(t, pieces, lo, hi) ==
    IF hi - lo = 1 THEN RescanStep(t, pieces[lo])
    ELSE LET mid == (lo + hi) \div 2
             firstHalf == RescanLoop(t, pieces, lo, mid)
         IN IF firstHalf.raised THEN firstHalf ELSE RescanLoop(firstHalf, pieces, mid, hi)

Rescan(pieces) ==
    RescanLoop([tempPceNum |-> [i \in 0..12 |-> 0],
                tempBigPce |-> [i \in 0..1 |-> 0],
                tempMajPce |-> [i \in 0..1 |-> 0],
                tempMinPce |-> [i \in 0..1 |-> 0],
                tempMaterial |-> [i \in 0..1 |-> 0],
                raised |-> FALSE], pieces, 0, 120)

\* the assertions after the bitboard loops (lines 396-434)
CheckTail(b, t) ==
    /\ t.tempMaterial[0] = b.material[0]
    /\ t.tempMaterial[1] = b.material[1]
    /\ t.tempBigPce[0] = b.bigPce[0]
    /\ t.tempBigPce[1] = b.bigPce[1]
    /\ t.tempMajPce[0] = b.majPce[0]
    /\ t.tempMajPce[1] = b.majPce[1]
    /\ t.tempMinPce[0] = b.minPce[0]
    /\ t.tempMinPce[1] = b.minPce[1]
    /\ (b.side = 0 \/ b.side = 1)
    /\ generate_pos_key(b) = b.posKey
    /\ \/ b.enPassant = NO_SQUARE
       \/ /\ b.enPassant \in 0..119
          /\ \/ IntEqEnumMember(RanksBrd[b.enPassant], RANK_6) /\ b.side = WHITE
             \/ IntEqEnumMember(RanksBrd[b.enPassant], RANK_3) /\ b.side = BLACK
    /\ b.pieces[b.kingSquare[WHITE]] = wK
    /\ b.pieces[b.kingSquare[BLACK]] = bK
    /\ 0 <= b.castle /\ b.castle <= 15

\* tempPawns[i] = self.pawns[i] binds the same ctypes objects, so CountBits
\* (which clears the object it counts) clears self.pawns[i]; the three
\* `while (tempPawns[i])` loops then find zero and do not run.
\* returns [b |-> the board, raised |-> whether an assertion failed]
check_board(b) ==
    LET t == Rescan(b.pieces)
        listOk == \A tempPiece \in 1..12 :
                     \A n \in 0..(b.pceNum[tempPiece] - 1) :
                        b.pieces[b.pList[tempPiece][n]] = tempPiece
        numOk == \A tempPiece \in 0..12 : t.tempPceNum[tempPiece] = b.pceNum[tempPiece]
        numWP == b.pceNum[wP]
        numBP == b.pceNum[bP]
        c0 == CountBits(b.pawns[0])
        b0 == [b EXCEPT !.pawns[0] = c0.bitboard]
        c1 == CountBits(b0.pawns[1])
        b1 == [b0 EXCEPT !.pawns[1] = c1.bitboard]
        c2 == CountBits(b1.pawns[2])
        b2 == [b1 EXCEPT !.pawns[2] = c2.bitboard]
    IN IF ~listOk \/ t.raised \/ ~numOk THEN [b |-> b, raised |-> TRUE]
       ELSE IF c0.count # numWP THEN [b |-> b0, raised |-> TRUE]
       ELSE IF c1.count # numBP THEN [b |-> b1, raised |-> TRUE]
       ELSE IF c2.count # numWP + numBP THEN [b |-> b2, raised |-> TRUE]
       ELSE [b |-> b2, raised |-> ~CheckTail(b2, t)]

(***************************************************************************)
(* board.py: Undo, Board.__init__                                          *)
(***************************************************************************)
\* a record that keeps neither the castle rights nor the en-passant square
UndoWithoutRights(move, castle, fiftyMoveClock, enPassant, hashKey) ==
    [move |-> move, castle |-> 0, fiftyMoveClock |-> fiftyMoveClock,
     enPassant |-> 0, hashKey |-> hashKey]

Undo(move, castle, fiftyMoveClock, enPassant, hashKey) ==
    [move |-> move, castle |-> castle, fiftyMoveClock |-> fiftyMoveClock,
     enPassant |-> enPassant, hashKey |-> hashKey]

\* the length of the history list, [None] * 2048
HistoryCapacity == 2048

\* history holds the slots written so far, slot i at position i + 1; every
\* other slot of the 2048 is None.  A negative Python index counts from the end.
HistorySlot(i) == IF i < 0 THEN i + HistoryCapacity ELSE i

HistoryIsNone(b, i) == HistorySlot(i) + 1 > Len(b.history)

HistoryGet(b, i) == b.history[HistorySlot(i) + 1]

\* the fields as assigned by lines 20-67, before the four calls of lines 70-77
BoardFields ==
    [pieces |-> [i \in 0..119 |-> OFF_BOARD],
     turn |-> WHITE,
     side |-> WHITE,
     castle |-> 15,
     enPassant |-> NO_SQUARE,
     fiftyMoveClock |-> 0,
     fullMoves |-> 0,
     kingSquare |-> [i \in 0..1 |-> 0],
     hisply |-> 0,
     pceNum |-> [i \in 0..12 |-> 0],
     bigPce |-> [i \in 0..1 |-> 0],
     majPce |-> [i \in 0..1 |-> 0],
     minPce |-> [i \in 0..1 |-> 0],
     material |-> [i \in 0..1 |-> 0],
     pList |-> [i \in 0..12 |-> [j \in 0..9 |-> 0]],
     pawns |-> [i \in 0..2 |-> {}],
     posKey |-> {},
     history |-> <<>>,
     pgnArr |-> <<>>,
     pgn |-> <<>>]

\* a call made only when no exception has been raised before it
ThenUpdateMaterials(r) == IF r.raised THEN r ELSE update_materials(r.b)

ThenCheckBoard(r) == IF r.raised THEN r ELSE check_board(r.b)

\* Board(): read_fen, update_materials, check_board in turn
BoardFromFen(fen) ==
    ThenCheckBoard(ThenUpdateMaterials(read_fen(BoardFields, fen)))

Board == BoardFromFen(STARTING_POS_FEN)

(***************************************************************************)
(* enums.Tiles(value).name                                                 *)
(***************************************************************************)
TilesFileLetter == <<"A", "B", "C", "D", "E", "F", "G", "H">>

\* the values enums.Tiles has a member for: A1 = 21 .. H8 = 98, 99 and 100
TilesValues == {21 + 10 * r + f : r \in 0..7, f \in 0..7} \cup {NO_SQUARE, OFF_BOARD}

\* Tiles(value).name; Tiles(value) raises ValueError outside TilesValues
TilesName(value) ==
    IF value = NO_SQUARE THEN <<"N", "O", "_", "S", "Q", "U", "A", "R", "E">>
    ELSE IF value = OFF_BOARD THEN <<"O", "F", "F", "_", "B", "O", "A", "R", "D">>
    ELSE <<TilesFileLetter[((value - 21) % 10) + 1]>> \o str(((value - 21) \div 10) + 1)

(***************************************************************************)
(* move.py: class Move.  A world w is [gb, mv, running]: the Board, the    *)
(* Move object and whether no exception has been raised.                   *)
(***************************************************************************)
\* Move.__init__
Move ==
    [from120 |-> -1, to120 |-> -1, capturedPiece |-> 0, fromPiece |-> 0,
     prom |-> 0, promPiece |-> 0, enPassant |-> NO_SQUARE]

\* a click is <<file, rank>>: file = int(x // tile), rank = 7 - int(y // tile)
mouse_pos_to_120(click) == file_rank_to_index(click[2] * 8 + click[1])

Raise(w) == [w EXCEPT !.running = FALSE]

\* a select that takes only a piece of the side to move
set_from_index_120_own_side(w, click) ==
    LET temp == mouse_pos_to_120(click)
    IN IF w.gb.pieces[temp] = EMPTY \/ PieceCol(w.gb.pieces[temp]) # w.gb.turn THEN w
       ELSE [w EXCEPT !.mv.from120 = temp]

set_from_index_120(w, click) ==
    LET temp == mouse_pos_to_120(click)
    IN IF w.gb.pieces[temp] = EMPTY THEN w
       ELSE [w EXCEPT !.mv.from120 = temp]

reset_move(mv) ==
    [mv EXCEPT !.from120 = -1, !.to120 = -1, !.capturedPiece = 0, !.fromPiece = 0,
               !.prom = 0, !.promPiece = 0]

\* a turn that is never handed over
NotTurnSameSide(turn) == turn

\* int(not turn)
NotTurn(turn) == IF turn = 0 THEN 1 ELSE 0

\* a process_pgn that writes the display string but not the token list
process_pgn_display_only(w) ==
    IF w.mv.to120 \notin TilesValues THEN Raise(w)
    ELSE [w EXCEPT !.gb.pgn = @ \o TilesName(w.mv.to120) \o <<" ">>]

process_pgn(w) ==
    LET b == w.gb
        head == IF b.hisply % 2 = 0
                THEN str((b.hisply \div 2) + 1) \o <<".", " ">>
                ELSE <<>>
    IN IF w.mv.to120 \notin TilesValues THEN Raise(w)           \* ValueError
       ELSE LET pgnInstance == head \o TilesName(w.mv.to120) \o <<" ">>
            IN [w EXCEPT !.gb.pgnArr = Append(@, pgnInstance),
                         !.gb.pgn = @ \o pgnInstance]

\* lines 83-114: the packed move
PackMove(mv) ==
    LET m0 == BitOr(0, mv.from120)
        m1 == BitOr(m0, ShiftLeft(mv.to120, 7))
        m2 == BitOr(m1, ShiftLeft(mv.capturedPiece, 14))
        m3 == IF mv.enPassant # NO_SQUARE THEN BitOr(m2, EN_PASSANT_MASK) ELSE m2
        m4 == IF \/ mv.fromPiece = wP /\ RanksBrd[mv.from120] = RANK_2
                 \/ mv.fromPiece = bP /\ RanksBrd[mv.from120] = RANK_7
              THEN BitOr(m3, PAWN_START_MASK) ELSE m3
        m5 == IF \/ mv.fromPiece = wP /\ RanksBrd[mv.to120] = RANK_8
                 \/ mv.fromPiece = bP /\ RanksBrd[mv.to120] = RANK_1
              THEN IF mv.promPiece \in {wQ, bQ} THEN BitOr(m4, PROMOTED_Q_MASK)
                   ELSE IF mv.promPiece \in {wN, bN} THEN BitOr(m4, PROMOTED_N_MASK)
                   ELSE IF mv.promPiece \in {wR, bR} THEN BitOr(m4, PROMOTED_R_MASK)
                   ELSE IF mv.promPiece \in {wB, bB} THEN BitOr(m4, PROMOTED_B_MASK)
                   ELSE m4
              ELSE m4
    IN BitOr(m5, CASTLING_MASK)                                  \* if (True)

update_history(w) ==
    LET move == PackMove(w.mv)
        Stored(w1, currentPosHistory) ==
          IF ~w1.running THEN w1
          ELSE IF w1.gb.hisply >= HistoryCapacity THEN Raise(w1)   \* IndexError
          ELSE [w1 EXCEPT !.gb.history =
                             IF w1.gb.hisply + 1 <= Len(@)
                             THEN [@ EXCEPT ![w1.gb.hisply + 1] = currentPosHistory]
                             ELSE Append(@, currentPosHistory),
                          !.gb.hisply = @ + 1]
        Recorded(w1) ==
          Stored(w1, Undo(move, w1.gb.castle, w1.gb.fiftyMoveClock, w1.gb.enPassant,
                          generate_pos_key(w1.gb)))
    IN Recorded(process_pgn(w))

\* gameBoard.update_materials() inside a method of Move
WithMaterials(w) ==
    LET Updated(r) == [w EXCEPT !.gb = r.b, !.running = w.running /\ ~r.raised]
    IN Updated(update_materials(w.gb))

\* a deselect test that never finds the same square
SameSquareNever(w, click) == FALSE

\* the click is on the square already selected
SameSquare(w, click) == mouse_pos_to_120(click) = w.mv.from120

process_move(w, click) ==
    IF SameSquare(w, click)
    THEN [w EXCEPT !.mv.from120 = -1]
    ELSE
      LET to120 == mouse_pos_to_120(click)                      \* set_to_index_120
          from120 == w.mv.from120
          fromPiece == w.gb.pieces[from120]
          pieces1 == [w.gb.pieces EXCEPT ![from120] = 0]
          capturedPiece == pieces1[to120]
          pieces2 == [pieces1 EXCEPT ![to120] = fromPiece]
          w1 == [w EXCEPT !.mv.to120 = to120, !.mv.fromPiece = fromPiece,
                          !.mv.capturedPiece = capturedPiece, !.gb.pieces = pieces2]
      IN IF fromPiece = wP /\ RanksBrd[to120] = RANK_8 /\ w1.mv.prom = 0
         THEN [w1 EXCEPT !.mv.prom = 1]
         ELSE IF fromPiece = bP /\ RanksBrd[to120] = RANK_1 /\ w1.mv.prom = 0
         THEN [w1 EXCEPT !.mv.prom = 2]
         ELSE
           LET Recorded(w2) == IF w2.running THEN update_history(w2) ELSE w2
               Finished(w3) ==
                 IF ~w3.running THEN w3
                 ELSE [w3 EXCEPT !.gb.fiftyMoveClock =
                                    IF fromPiece = wP \/ fromPiece = bP THEN 0 ELSE @,
                                 !.gb.turn = NotTurn(@),
                                 !.mv = reset_move(@)]
           IN Finished(Recorded(WithMaterials(w1)))

RECURSIVE JoinPgn(_, _, _)
JoinPgn(pgnArr, i, n) ==
    IF i >= n THEN <<>> ELSE pgnArr[i + 1] \o JoinPgn(pgnArr, i + 1, n)

undo_move(w) ==
    LET b == w.gb
    IN IF HistoryIsNone(b, b.hisply - 1) THEN w
       ELSE
        LET previousUndoObject == HistoryGet(b, b.hisply - 1)
            previousMove == previousUndoObject.move
            from120 == BitAnd(previousMove, FROM_MASK)
            to120 == ShiftRight(BitAnd(previousMove, TO_MASK), TO_SHIFT)
            capturedPiece == ShiftRight(BitAnd(previousMove, CAPTURED_MASK), CAPTURED_SHIFT)
            promoted == BitAnd(previousMove, PROMOTED_PIECE_MASK) # 0
            piece == IF promoted /\ b.turn = BLACK THEN wP
                     ELSE IF promoted /\ b.turn = WHITE THEN bP
                     ELSE b.pieces[to120]
            pieces1 == [b.pieces EXCEPT ![from120] = piece]
            pieces2 == [pieces1 EXCEPT ![to120] = capturedPiece]
            clock == previousUndoObject.fiftyMoveClock
            b1 == [b EXCEPT !.pieces = pieces2,
                            !.castle = previousUndoObject.castle,
                            !.enPassant = previousUndoObject.enPassant,
                            !.posKey = previousUndoObject.hashKey,
                            !.hisply = IF @ > 0 THEN @ - 1 ELSE @,
                            !.fiftyMoveClock = IF clock > 0 THEN clock - 1 ELSE clock,
                            !.turn = NotTurn(@)]
            Popped(w1) ==
              IF ~w1.running THEN w1
              ELSE IF w1.gb.pgnArr = <<>> THEN Raise([w1 EXCEPT !.gb.pgn = <<>>])
              ELSE LET arr == SubSeq(w1.gb.pgnArr, 1, Len(w1.gb.pgnArr) - 1)
                   IN IF w1.gb.hisply > Len(arr)              \* pgnArr[i]: IndexError
                      THEN Raise([w1 EXCEPT !.gb.pgnArr = arr,
                                            !.gb.pgn = JoinPgn(arr, 0, Len(arr))])
                      ELSE [w1 EXCEPT !.gb.pgnArr = arr,
                                      !.gb.pgn = JoinPgn(arr, 0, w1.gb.hisply)]
        IN Popped(WithMaterials([w EXCEPT !.gb = b1, !.mv.prom = 0]))

handle_prom(w, promPiece) ==
    LET mv1 == [w.mv EXCEPT !.promPiece = promPiece]
        pieces1 == [w.gb.pieces EXCEPT ![mv1.from120] = EMPTY]
        pieces2 == [pieces1 EXCEPT ![mv1.to120] = promPiece]
        Recorded(w1) ==
          IF w1.running THEN update_history([w1 EXCEPT !.gb.turn = NotTurn(@)])
          ELSE w1
        Finished(w2) == IF ~w2.running THEN w2 ELSE [w2 EXCEPT !.mv = reset_move(@)]
    IN Finished(Recorded(WithMaterials([w EXCEPT !.mv = mv1, !.gb.pieces = pieces2])))

\* a promotion menu that offers the other side's pieces
is_clicked_prom_other_side(inColumn, index, prom) ==
    IF inColumn /\ 0 <= index /\ index <= 3
    THEN IF prom = 1 THEN blackPromPieces[index + 1] ELSE whitePromPieces[index + 1]
    ELSE 0

\* artifacts.is_clicked_prom: inColumn is promPos[0] < x < promPos[0] + tile,
\* index is int((y - promPos[1]) / tile // 1)
is_clicked_prom(inColumn, index, prom) ==
    IF inColumn /\ 0 <= index /\ index <= 3
    THEN IF prom = 1 THEN whitePromPieces[index + 1] ELSE blackPromPieces[index + 1]
    ELSE 0

(***************************************************************************)
(* bitboards.py: init_sq_arrs                                              *)
(***************************************************************************)
\* the loop of lines 103-108; both ctypes arrays start zeroed (lines 21-22)
RECURSIVE SqArrsLoop(_, _, _)
SqArrsLoop(sq64, s64, s120) ==
    IF sq64 = 64 THEN [square64ToSquare120 |-> s64, square120ToSquare64 |-> s120]
    ELSE SqArrsLoop(sq64 + 1,
                    [s64 EXCEPT ![sq64] = file_rank_to_index(sq64)],
                    [s120 EXCEPT ![file_rank_to_index(sq64)] = sq64])

init_sq_arrs == SqArrsLoop(0, [d \in 0..63 |-> 0], [p \in 0..119 |-> 0])

square120ToSquare64 == init_sq_arrs.square120ToSquare64

(***************************************************************************)
(* attacks.py                                                              *)
(***************************************************************************)
\* the outcomes of is_attacked: Python's False when no threat is found, a
\* non-empty str (truthy) naming the threat, or "IndexError" when a read of
\* board.pieces raised
False == "False"

Truthy(value) == value # False /\ value # "IndexError"

\* board.pieces[tile] on the 120-cell ctypes array: a negative index down to
\* -120 counts from the end, any other index outside 0..119 is an IndexError
IndexInRange(tile) == tile \in (-120)..119

ReadCell(pieces, tile) == IF tile >= 0 THEN pieces[tile] ELSE pieces[tile + 120]

\* a ray walk that does not stop on OFF_BOARD
RECURSIVE RayWalkPastBorder(_, _, _, _)
RayWalkPastBorder(pieces, tile, direction, reads) ==
    IF ~IndexInRange(tile)
    THEN [piece |-> OFF_BOARD, tile |-> tile, reads |-> Append(reads, tile), raised |-> TRUE]
    ELSE LET Walked(piece) ==
               IF piece # OFF_BOARD /\ piece # EMPTY
               THEN [piece |-> piece, tile |-> tile,
                     reads |-> Append(reads, tile), raised |-> FALSE]
               ELSE RayWalkPastBorder(pieces, tile + direction, direction, Append(reads, tile))
         IN Walked(ReadCell(pieces, tile))

\* lines 46-56 (60-70, 79-89): piece = board.pieces[tile]; while piece is not
\* OFF_BOARD: leave the loop on a non-EMPTY piece, else step and read again.
\* piece and tile are the cell the walk ended on, reads the indices it read
\* in order, raised an IndexError of a read.
RECURSIVE RayWalk(_, _, _, _)
RayWalk(pieces, tile, direction, reads) ==
    IF ~IndexInRange(tile)
    THEN [piece |-> OFF_BOARD, tile |-> tile, reads |-> Append(reads, tile), raised |-> TRUE]
    ELSE LET Walked(piece) ==
               IF piece = OFF_BOARD \/ piece # EMPTY
               THEN [piece |-> piece, tile |-> tile,
                     reads |-> Append(reads, tile), raised |-> FALSE]
               ELSE RayWalk(pieces, tile + direction, direction, Append(reads, tile))
         IN Walked(ReadCell(pieces, tile))

\* `for direction in directions` over ray walks looking for the piece `slider`,
\* from the i-th direction on: "hit" (return the threat), "raised" or "none"
RECURSIVE RayScan(_, _, _, _, _)
RayScan(pieces, square, directions, i, slider) ==
    IF i > Len(directions) THEN "none"
    ELSE LET Scanned(walk) ==
               IF walk.raised THEN "raised"
               ELSE IF walk.piece = slider THEN "hit"
               ELSE RayScan(pieces, square, directions, i + 1, slider)
         IN Scanned(RayWalk(pieces, square + directions[i], directions[i], <<>>))

\* `for direction in directions` over single reads looking for `piece`
RECURSIVE StepScan(_, _, _, _, _)
StepScan(pieces, square, directions, i, piece) ==
    IF i > Len(directions) THEN "none"
    ELSE IF ~IndexInRange(square + directions[i]) THEN "raised"
    ELSE IF ReadCell(pieces, square + directions[i]) = piece THEN "hit"
    ELSE StepScan(pieces, square, directions, i + 1, piece)

\* lines 31-37, as a scan of the two cells a pawn of the other side captures from
PawnDirections(turn) == IF turn = WHITE THEN <<9, 11>> ELSE <<-9, -11>>

PawnThreat(turn) == IF turn = WHITE THEN "Black Pawn Threat" ELSE "White Pawn Threat"

\* the stages of is_attacked after the pawns, in order; each stage returns its
\* threat on a hit, propagates an IndexError, or falls through to the next
AfterQueens(scan) ==
    IF scan = "hit" THEN "Queen Threat"
    ELSE IF scan = "raised" THEN "IndexError" ELSE False

AfterKings(scan, pieces, square, modifier) ==
    IF scan = "hit" THEN "King Threat"
    ELSE IF scan = "raised" THEN "IndexError"
    ELSE AfterQueens(RayScan(pieces, square, BishopDirection \o RookDirection, 1,
                             wQ + modifier))

AfterRooks(scan, pieces, square, modifier) ==
    IF scan = "hit" THEN "Rook Threat"
    ELSE IF scan = "raised" THEN "IndexError"
    ELSE AfterKings(StepScan(pieces, square, BishopDirection \o RookDirection, 1,
                             wK + modifier), pieces, square, modifier)

AfterBishops(scan, pieces, square, modifier) ==
    IF scan = "hit" THEN "Bishop Threat"
    ELSE IF scan = "raised" THEN "IndexError"
    ELSE AfterRooks(RayScan(pieces, square, RookDirection, 1, wR + modifier),
                    pieces, square, modifier)

AfterKnights(scan, pieces, square, modifier) ==
    IF scan = "hit" THEN "Knight Threat"
    ELSE IF scan = "raised" THEN "IndexError"
    ELSE AfterBishops(RayScan(pieces, square, BishopDirection, 1, wB + modifier),
                      pieces, square, modifier)

AfterPawns(scan, pieces, square, turn, modifier) ==
    IF scan = "hit" THEN PawnThreat(turn)
    ELSE IF scan = "raised" THEN "IndexError"
    ELSE AfterKnights(StepScan(pieces, square, KnightDirection, 1, wN + modifier),
                      pieces, square, modifier)

\* is_attacked with the modifier of the other turn: past the pawns it looks
\* for the pieces of the side to move
is_attacked_own_side(square, board) ==
    AfterPawns(StepScan(board.pieces, square, PawnDirections(board.turn), 1,
                        IF board.turn = WHITE THEN bP ELSE wP),
               board.pieces, square, board.turn,
               IF board.turn = WHITE THEN 0 ELSE 6)

is_attacked(square, board) ==
    AfterPawns(StepScan(board.pieces, square, PawnDirections(board.turn), 1,
                        IF board.turn = WHITE THEN bP ELSE wP),
               board.pieces, square, board.turn,
               IF board.turn = WHITE THEN 6 ELSE 0)

offBoardSet == {29, 30, 39, 40, 49, 50, 59, 60, 69, 70, 79, 80, 89, 90}

\* one iteration that sets the bit of every attacked i, in offBoardSet or not
AttackedStepNoFilter(board, i, r) ==
    LET Marked(temp) ==
          IF temp = "IndexError" THEN [r EXCEPT !.raised = TRUE]
          ELSE IF Truthy(temp)
          THEN [r EXCEPT !.bitboard = set_bit(@, square120ToSquare64[i])]
          ELSE r
    IN Marked(is_attacked(i, board))

\* lines 104-106: one iteration; r = [bitboard, raised]
AttackedStep(board, i, r) ==
    LET Marked(temp) ==
          IF temp = "IndexError" THEN [r EXCEPT !.raised = TRUE]
          ELSE IF Truthy(temp) /\ i \notin offBoardSet
          THEN [r EXCEPT !.bitboard = set_bit(@, square120ToSquare64[i])]
          ELSE r
    IN Marked(is_attacked(i, board))

\* for i in range(lo, hi): the first half of the range, then (unless an
\* exception left the loop) the second half
RECURSIVE AttackedLoop(_, _, _, _)
AttackedLoop(board, lo, hi, r) ==
    IF hi - lo = 1 THEN AttackedStep(board, lo, r)
    ELSE LET mid == (lo + hi) \div 2
             SecondHalf(firstHalf) ==
               IF firstHalf.raised THEN firstHalf ELSE AttackedLoop(board, mid, hi, firstHalf)
         IN SecondHalf(AttackedLoop(board, lo, mid, r))

\* returns [bitboard |-> the mask, raised |-> whether is_attacked raised]
get_attacked_bitboard(board) ==
    AttackedLoop(board, 21, 99, [bitboard |-> {}, raised |-> FALSE])

\* probe holds the last call made on the board from outside the event loop
\* and what it returned
NoProbe ==
    [op |-> "none", square |-> 0, result |-> False, bitboard |-> {}, mapped |-> 0,
     fen |-> <<>>]

(***************************************************************************)
(* main.py: the event loop.  Each left click is handled to completion.     *)
(***************************************************************************)
\* the number of clicks the model lets the event loop handle
MaxEvents == 5

\* the board clicks the model draws from, as <<file, rank>>: e1, e2, e4, e7,
\* e8, and the three clicks on the inclusive far edges of the board image
\* (x = board width gives file 8, y = board height gives rank -1)
Clicks == {<<4, 0>>, <<4, 1>>, <<4, 3>>, <<4, 6>>, <<4, 7>>,
           <<8, 7>>, <<4, -1>>, <<8, -1>>}

PromColumns == BOOLEAN

PromIndexes == -1..4

World == [gb |-> gameBoard, mv |-> makeMove, running |-> running]

\* one pass of the event loop: the handler's effect on the board, the move
\* object and the running flag
Becomes(w) ==
    /\ events < MaxEvents
    /\ events' = events + 1
    /\ gameBoard' = w.gb
    /\ makeMove' = w.mv
    /\ running' = w.running

FromSelected(mv) == 21 <= mv.from120 /\ mv.from120 <= 98

\* lines 342-344: no promotion pending, no square selected
Select ==
    /\ running
    /\ makeMove.prom = 0
    /\ ~FromSelected(makeMove)
    /\ \E click \in Clicks : Becomes(set_from_index_120(World, click))
    /\ UNCHANGED probe

\* lines 338-340: no promotion pending, a square selected
SubmitTarget ==
    /\ running
    /\ makeMove.prom = 0
    /\ FromSelected(makeMove)
    /\ \E click \in Clicks : Becomes(process_move(World, click))
    /\ UNCHANGED probe

\* lines 330-336: a promotion pending
ChoosePromotion ==
    /\ running
    /\ makeMove.prom # 0
    /\ \E inColumn \in PromColumns, index \in PromIndexes :
          LET promPiece == is_clicked_prom(inColumn, index, makeMove.prom)
          IN IF promPiece # 0 THEN Becomes(handle_prom(World, promPiece))
             ELSE Becomes(World)
    /\ UNCHANGED probe

\* lines 346-349: the undo button
UndoClick ==
    /\ running
    /\ Becomes(undo_move(World))
    /\ UNCHANGED probe

Init ==
    /\ gameBoard = Board.b
    /\ makeMove = Move
    /\ running = ~Board.raised
    /\ events = 0
    /\ probe = NoProbe

Next == Select \/ SubmitTarget \/ ChoosePromotion \/ UndoClick

Spec == Init /\ [][Next]_vars

(***************************************************************************)
(* attacks.py applied to boards drawn from a bounded set: up to            *)
(* MaxAtkPieces pieces of any kind on the squares AtkSquares of an empty   *)
(* board, either side to move.                                             *)
(***************************************************************************)
MaxAtkPieces == 2

\* d4, d6, f6: a file, a rank and a diagonal, each with one square between
AtkSquares == {54, 74, 76}

EMPTY_FEN ==
    <<"8", "/", "8", "/", "8", "/", "8", "/", "8", "/", "8", "/", "8", "/", "8", " ",
      "w", " ", "-", " ", "-", " ", "0", " ", "1">>

RECURSIVE PlacedPieces(_)
PlacedPieces(n) ==
    IF n = 0 THEN {read_fen(BoardFields, EMPTY_FEN).b.pieces}
    ELSE PlacedPieces(n - 1) \cup
         {[p EXCEPT ![sq] = piece] :
             p \in PlacedPieces(n - 1), sq \in AtkSquares, piece \in wP..bK}

AttackBoards ==
    {[BoardFields EXCEPT !.pieces = p, !.turn = t] :
        p \in PlacedPieces(MaxAtkPieces), t \in {WHITE, BLACK}}

InitAttack ==
    /\ gameBoard \in AttackBoards
    /\ makeMove = Move
    /\ running = TRUE
    /\ events = 0
    /\ probe = NoProbe

CallIsAttacked ==
    /\ probe = NoProbe
    /\ \E square \in 21..98 :
          probe' = [NoProbe EXCEPT !.op = "is_attacked", !.square = square,
                                   !.result = is_attacked(square, gameBoard)]
    /\ UNCHANGED <<gameBoard, makeMove, running, events>>

CallGetAttackedBitboard ==
    /\ probe = NoProbe
    /\ \E r \in {get_attacked_bitboard(gameBoard)} :
          /\ ~r.raised
          /\ probe' = [NoProbe EXCEPT !.op = "get_attacked_bitboard",
                                      !.bitboard = r.bitboard]
    /\ UNCHANGED <<gameBoard, makeMove, running, events>>

NextAttack == CallIsAttacked \/ CallGetAttackedBitboard

SpecAttack == InitAttack /\ [][NextAttack]_vars

(***************************************************************************)
(* The square maps of a constructed Board, read at every index.            *)
(***************************************************************************)
PlayableSquares == {21 + 10 * r + f : r \in 0..7, f \in 0..7}

InitMap ==
    /\ gameBoard = Board.b
    /\ makeMove = Move
    /\ running = ~Board.raised
    /\ events = 0
    /\ probe = NoProbe

ReadMap64To120 ==
    /\ probe = NoProbe
    /\ \E d \in 0..63 :
          probe' = [NoProbe EXCEPT !.op = "map64To120", !.square = d,
                                   !.mapped = map64To120[d]]
    /\ UNCHANGED <<gameBoard, makeMove, running, events>>

ReadMap120To64 ==
    /\ probe = NoProbe
    /\ \E p \in PlayableSquares :
          probe' = [NoProbe EXCEPT !.op = "map120To64", !.square = p,
                                   !.mapped = map120To64[p]]
    /\ UNCHANGED <<gameBoard, makeMove, running, events>>

NextMap == ReadMap64To120 \/ ReadMap120To64

SpecMap == InitMap /\ [][NextMap]_vars

\* C5: the square mapping is a bijection between the 64 dense indices and the
\* 64 playable padded indices: map120To64[map64To120[d]] = d for every dense d,
\* map64To120[map120To64[p]] = p for every playable p, and
\* map64To120[d] = 21 + d + 2 * (d div 8).
C5_MappingBijection ==
    /\ probe.op = "map64To120" =>
          /\ probe.mapped = 21 + probe.square + 2 * (probe.square \div 8)
          /\ probe.mapped \in PlayableSquares
          /\ map120To64[probe.mapped] = probe.square
    /\ probe.op = "map120To64" =>
          /\ probe.mapped \in 0..63
          /\ map64To120[probe.mapped] = probe.square
    /\ Cardinality({map64To120[d] : d \in 0..63}) = 64
    /\ {map64To120[d] : d \in 0..63} = PlayableSquares

C5_Witness ==
    /\ probe.op = "map120To64"
    /\ probe.square = 98
    /\ probe.mapped = 63

(***************************************************************************)
(* Chess movement rules in file and rank coordinates, as the reference the *)
(* attack detection is compared with.                                      *)
(***************************************************************************)
FileOf(sq) == (sq - 21) % 10

RankOf(sq) == (sq - 21) \div 10

SquareAt(file, rank) == 21 + 10 * rank + file

Abs(x) == IF x < 0 THEN -x ELSE x

Sign(x) == IF x < 0 THEN -1 ELSE IF x > 0 THEN 1 ELSE 0

Longest(x, y) == IF Abs(x) > Abs(y) THEN Abs(x) ELSE Abs(y)

\* the squares strictly between two squares of one line
Between(q, s) ==
    {SquareAt(FileOf(q) + k * Sign(FileOf(s) - FileOf(q)),
              RankOf(q) + k * Sign(RankOf(s) - RankOf(q))) :
        k \in 1..(Longest(FileOf(s) - FileOf(q), RankOf(s) - RankOf(q)) - 1)}

ClearLine(pieces, q, s) == \A m \in Between(q, s) : pieces[m] = EMPTY

OnDiagonal(q, s) ==
    q # s /\ Abs(FileOf(s) - FileOf(q)) = Abs(RankOf(s) - RankOf(q))

OnOrthogonal(q, s) ==
    q # s /\ (FileOf(s) = FileOf(q) \/ RankOf(s) = RankOf(q))

\* the piece on q attacks s
PieceAttacks(pieces, q, s) ==
    LET piece == pieces[q]
        df == Abs(FileOf(s) - FileOf(q))
        dr == RankOf(s) - RankOf(q)
    IN \/ piece = wP /\ dr = 1 /\ df = 1
       \/ piece = bP /\ dr = -1 /\ df = 1
       \/ piece \in {wN, bN} /\ {df, Abs(dr)} = {1, 2}
       \/ piece \in {wK, bK} /\ q # s /\ df <= 1 /\ Abs(dr) <= 1
       \/ piece \in {wB, bB, wQ, bQ} /\ OnDiagonal(q, s) /\ ClearLine(pieces, q, s)
       \/ piece \in {wR, bR, wQ, bQ} /\ OnOrthogonal(q, s) /\ ClearLine(pieces, q, s)

SideNotToMove(board) == IF board.turn = WHITE THEN BLACK ELSE WHITE

RuleAttacked(board, s) ==
    \E q \in PlayableSquares :
        /\ board.pieces[q] \in wP..bK
        /\ PieceCol(board.pieces[q]) = SideNotToMove(board)
        /\ PieceAttacks(board.pieces, q, s)

BorderIntact(board) ==
    \A sq \in (0..119) \ PlayableSquares : board.pieces[sq] = OFF_BOARD

\* C6: for every playable square s and every board whose border is intact,
\* is_attacked(s, board) is truthy exactly when some piece of the side not to
\* move attacks s under the chess movement rules; pieces of the side to move
\* never make it truthy.
C6_IsAttackedMatchesRules ==
    (probe.op = "is_attacked" /\ probe.square \in PlayableSquares
        /\ BorderIntact(gameBoard))
    => (Truthy(probe.result) <=> RuleAttacked(gameBoard, probe.square))

\* a bishop threat found two diagonal steps away, with a second piece on the board
C6_Witness ==
    /\ probe.op = "is_attacked"
    /\ probe.square = 76
    /\ probe.result = "Bishop Threat"
    /\ gameBoard.pieces[54] = wB
    /\ gameBoard.pieces[74] = wR
    /\ gameBoard.turn = BLACK

AllDirections == BishopDirection \o RookDirection

\* C7: every ray walk of is_attacked started from any square 21..98 stops at
\* the first non-empty or OFF_BOARD cell, reads only indices within 0..119,
\* terminates, and never reports a slider lying beyond an OFF_BOARD cell: a
\* rook two squares from an edge with nothing in between attacks the square
\* just inside the edge, and a reported rook stands on the rank or file of
\* the square.
C7_RayWalksStayOnBoard ==
    probe.op = "is_attacked" =>
      /\ \A i \in DOMAIN AllDirections :
            LET direction == AllDirections[i]
                walk == RayWalk(gameBoard.pieces, probe.square + direction,
                                direction, <<>>)
            IN /\ ~walk.raised
               /\ Len(walk.reads) <= 9
               /\ \A k \in DOMAIN walk.reads :
                     /\ walk.reads[k] = probe.square + k * direction
                     /\ walk.reads[k] \in 0..119
                     /\ k < Len(walk.reads) => gameBoard.pieces[walk.reads[k]] = EMPTY
               /\ walk.tile = walk.reads[Len(walk.reads)]
               /\ walk.piece = gameBoard.pieces[walk.tile]
               /\ walk.piece # EMPTY
      /\ probe.result # "IndexError"
      /\ \A i \in DOMAIN RookDirection :
            LET direction == RookDirection[i]
            IN (/\ probe.square \in PlayableSquares
                /\ gameBoard.pieces[probe.square - direction] = OFF_BOARD
                /\ gameBoard.pieces[probe.square + direction] = EMPTY
                /\ gameBoard.pieces[probe.square + 2 * direction] \in {wR, bR}
                /\ PieceCol(gameBoard.pieces[probe.square + 2 * direction])
                      = SideNotToMove(gameBoard))
               => Truthy(probe.result)
      /\ (probe.result = "Rook Threat" /\ probe.square \in PlayableSquares) =>
            \E q \in PlayableSquares :
                /\ gameBoard.pieces[q] \in {wR, bR}
                /\ PieceCol(gameBoard.pieces[q]) = SideNotToMove(gameBoard)
                /\ OnOrthogonal(q, probe.square)
                /\ ClearLine(gameBoard.pieces, q, probe.square)

\* the white rook on f6 reported on h6, the square just inside the edge
C7_Witness ==
    /\ probe.op = "is_attacked"
    /\ probe.square = 78
    /\ gameBoard.pieces[76] = wR
    /\ gameBoard.pieces[77] = EMPTY
    /\ gameBoard.pieces[79] = OFF_BOARD
    /\ gameBoard.turn = BLACK
    /\ probe.result = "Rook Threat"

\* C8: get_attacked_bitboard(board) returns a 64-bit mask in which bit d is
\* set exactly when is_attacked(map64To120[d], board) is truthy, and the board
\* is left unchanged.
C8_BitboardMatchesIsAttacked ==
    [][(probe.op = "none" /\ probe'.op = "get_attacked_bitboard") =>
          /\ gameBoard' = gameBoard
          /\ probe'.bitboard \subseteq 0..63
          /\ \A d \in 0..63 :
                d \in probe'.bitboard
                   <=> Truthy(is_attacked(map64To120[d], gameBoard))]_vars

\* a mask with a1 clear and h6 set, for the white rook on f6
C8_Witness ==
    /\ probe.op = "get_attacked_bitboard"
    /\ gameBoard.pieces[76] = wR
    /\ gameBoard.turn = BLACK
    /\ 47 \in probe.bitboard
    /\ 0 \notin probe.bitboard

(***************************************************************************)
(* Claims about the board and move engine under the event loop             *)
(***************************************************************************)
CountOf(pieces, kinds) == Cardinality({sq \in 0..119 : pieces[sq] \in kinds})

PiecesOf(colour) == {piece \in wP..bK : PieceCol(piece) = colour}

RescanMaterial(pieces, colour) ==
    IF colour = WHITE
    THEN CountOf(pieces, {wP}) * PieceVal(wP) + CountOf(pieces, {wN}) * PieceVal(wN)
         + CountOf(pieces, {wB}) * PieceVal(wB) + CountOf(pieces, {wR}) * PieceVal(wR)
         + CountOf(pieces, {wQ}) * PieceVal(wQ) + CountOf(pieces, {wK}) * PieceVal(wK)
    ELSE CountOf(pieces, {bP}) * PieceVal(bP) + CountOf(pieces, {bN}) * PieceVal(bN)
         + CountOf(pieces, {bB}) * PieceVal(bB) + CountOf(pieces, {bR}) * PieceVal(bR)
         + CountOf(pieces, {bQ}) * PieceVal(bQ) + CountOf(pieces, {bK}) * PieceVal(bK)

RescanPawns(pieces, kinds) ==
    {map120To64[sq] : sq \in {p \in PlayableSquares : pieces[p] \in kinds}}

\* C1: in every state reachable by select, submitTarget, choosePromotion and
\* undo (AwaitingPromotion included), the maintained per-piece-type counts,
\* per-side big / major / minor counts, per-side material sums and the three
\* pawn bitboards equal the values of a full rescan of the 120-cell array.
C1_AggregatesEqualRescan ==
    running =>
      /\ \A piece \in wP..bK :
            gameBoard.pceNum[piece] = CountOf(gameBoard.pieces, {piece})
      /\ \A colour \in {WHITE, BLACK} :
            /\ gameBoard.bigPce[colour]
                  = CountOf(gameBoard.pieces,
                            {piece \in PiecesOf(colour) : piece \notin {wP, bP}})
            /\ gameBoard.majPce[colour]
                  = CountOf(gameBoard.pieces,
                            {piece \in PiecesOf(colour) : PieceMaj(piece)})
            /\ gameBoard.minPce[colour]
                  = CountOf(gameBoard.pieces,
                            {piece \in PiecesOf(colour) : PieceMin(piece)})
            /\ gameBoard.material[colour] = RescanMaterial(gameBoard.pieces, colour)
      /\ gameBoard.pawns[WHITE] = RescanPawns(gameBoard.pieces, {wP})
      /\ gameBoard.pawns[BLACK] = RescanPawns(gameBoard.pieces, {bP})
      /\ gameBoard.pawns[BOTH] = RescanPawns(gameBoard.pieces, {wP, bP})

SameBoard(after, before) ==
    /\ after.pieces = before.pieces
    /\ after.turn = before.turn
    /\ after.castle = before.castle
    /\ after.enPassant = before.enPassant
    /\ after.posKey = before.posKey

PromChoices(prom) == Range(IF prom = 1 THEN whitePromPieces ELSE blackPromPieces)

\* C2: for every reachable board B and every move whose from-square holds a
\* piece and whose to-square is a different square (a promotion being completed
\* by choosePromotion), applying the move and then calling undo once yields a
\* board equal to B in piece placement, turn, castle rights, en-passant square
\* and stored position hash.
C2_ApplyThenUndoRestores ==
    (running /\ makeMove.prom = 0 /\ FromSelected(makeMove)) =>
      \A click \in Clicks :
        mouse_pos_to_120(click) # makeMove.from120 =>
          \A applied \in {process_move(World, click)} :
            IF ~applied.running THEN TRUE
            ELSE IF applied.mv.prom = 0
            THEN SameBoard(undo_move(applied).gb, gameBoard)
            ELSE \A promPiece \in PromChoices(applied.mv.prom) :
                   \A chosen \in {handle_prom(applied, promPiece)} :
                      chosen.running => SameBoard(undo_move(chosen).gb, gameBoard)

\* C3: after every finalized move and after every undo, i.e. in every state
\* in which no promotion is pending, the stored positionHash equals
\* generate_pos_key of the current board.
C3_StoredHashIsCurrent ==
    (running /\ makeMove.prom = 0) =>
        gameBoard.posKey = generate_pos_key(gameBoard)

\* C4: in every reachable state each of the 56 border cells of the piece
\* array holds OFF_BOARD, for any click the board hit-test can pass (file 0..8,
\* rank -1..7).
C4_BorderCellsStayOffBoard == BorderIntact(gameBoard)

DecodeFrom(move) == BitAnd(move, FROM_MASK)

DecodeTo(move) == ShiftRight(BitAnd(move, TO_MASK), TO_SHIFT)

DecodeCaptured(move) == ShiftRight(BitAnd(move, CAPTURED_MASK), CAPTURED_SHIFT)

\* the packed move of the record a world has just appended
LastMove(w) == HistoryGet(w.gb, w.gb.hisply - 1).move

\* the three fields decode to the given values and the bit above the captured
\* field, the en-passant flag, is as the en-passant rule alone sets it
DecodesTo(move, from120, to120, capturedPiece, enPassant) ==
    /\ DecodeFrom(move) = from120
    /\ DecodeTo(move) = to120
    /\ DecodeCaptured(move) = capturedPiece
    /\ BitAnd(move, FROM_MASK + TO_MASK + CAPTURED_MASK)
          = from120 + to120 * Pow2(TO_SHIFT) + capturedPiece * Pow2(CAPTURED_SHIFT)
    /\ (BitAnd(move, EN_PASSANT_MASK) # 0) <=> (enPassant # NO_SQUARE)
    /\ BitAnd(move, CASTLING_MASK) # 0

\* C9: for every from-square, to-square and captured-cell content that
\* submitTarget can record, decoding the packed integer with FROM_MASK,
\* TO_MASK / TO_SHIFT and CAPTURED_MASK / CAPTURED_SHIFT returns exactly the
\* values that were packed, and the captured value never spills into the flag
\* bits above it.
C9_MoveEncodingInvertible ==
    /\ (running /\ makeMove.prom = 0 /\ FromSelected(makeMove)) =>
          \A click \in Clicks :
            \A applied \in {process_move(World, click)} :
              (applied.running /\ applied.gb.hisply = gameBoard.hisply + 1) =>
                 DecodesTo(LastMove(applied), makeMove.from120,
                           mouse_pos_to_120(click),
                           gameBoard.pieces[mouse_pos_to_120(click)],
                           makeMove.enPassant)
    /\ (running /\ makeMove.prom # 0) =>
          \A promPiece \in PromChoices(makeMove.prom) :
            \A chosen \in {handle_prom(World, promPiece)} :
              (chosen.running /\ chosen.gb.hisply = gameBoard.hisply + 1) =>
                 DecodesTo(LastMove(chosen), makeMove.from120, makeMove.to120,
                           makeMove.capturedPiece, makeMove.enPassant)

\* a recorded capture of a black pawn on e7, and a promotion about to be recorded
C9_Witness ==
    /\ running
    /\ gameBoard.hisply >= 1
    /\ DecodeCaptured(HistoryGet(gameBoard, 0).move) = bP
    /\ DecodeTo(HistoryGet(gameBoard, 0).move) = 85
    /\ makeMove.prom # 0

\* the board as it was before the move now being finalized
BoardBeforeMove ==
    IF makeMove.prom # 0
    THEN [gameBoard EXCEPT !.pieces[makeMove.from120] = makeMove.fromPiece,
                           !.pieces[makeMove.to120] = makeMove.capturedPiece]
    ELSE gameBoard

\* C10: every Undo record appended for a move holds the castle rights,
\* halfmove clock, en-passant square and position hash that the board had
\* immediately before that move was applied, on the non-promotion and on the
\* promotion finalization path.
C10_UndoRecordIsPreMove ==
    [][gameBoard'.hisply = gameBoard.hisply + 1 =>
          /\ HistoryGet(gameBoard', gameBoard.hisply).castle = BoardBeforeMove.castle
          /\ HistoryGet(gameBoard', gameBoard.hisply).fiftyMoveClock
                = BoardBeforeMove.fiftyMoveClock
          /\ HistoryGet(gameBoard', gameBoard.hisply).enPassant
                = BoardBeforeMove.enPassant
          /\ HistoryGet(gameBoard', gameBoard.hisply).hashKey
                = generate_pos_key(BoardBeforeMove)]_vars

(***************************************************************************)
(* The event loop started on a board whose 2048 history slots have all     *)
(* been written: the knight on g1 has gone to f3 and back 1024 times and   *)
(* every one of the 2048 moves has been undone.  undo_move never clears a  *)
(* slot, so the records stay behind while the ply counter is back at 0.    *)
(***************************************************************************)
\* the move object and board as update_history finds them when the knight
\* has gone from g1 to f3 (plies 0, 2, ...) and when it has come back from
\* f3 to g1 (plies 1, 3, ...): the piece array already rewritten, the turn
\* not yet flipped
KnightOut(b) ==
    [gb |-> [b EXCEPT !.pieces[27] = EMPTY, !.pieces[46] = wN],
     mv |-> [Move EXCEPT !.from120 = 27, !.to120 = 46, !.fromPiece = wN],
     running |-> TRUE]

KnightBack(b) ==
    [gb |-> [b EXCEPT !.turn = BLACK],
     mv |-> [Move EXCEPT !.from120 = 46, !.to120 = 27, !.fromPiece = wN],
     running |-> TRUE]

\* slot i (0-based) holds the record of the knight going out when i is even
\* and of the knight coming back when i is odd
FullHistory(out, back) ==
    [i \in 1..HistoryCapacity |->
        IF i % 2 = 1 THEN HistoryGet(out.gb, 0) ELSE HistoryGet(back.gb, 0)]

InitFullHistory ==
    \E fresh \in {Board} :
      \E out \in {update_history(KnightOut(fresh.b))} :
        \E back \in {update_history(KnightBack(fresh.b))} :
          \E undone \in {update_materials(fresh.b)} :      \* the last undo_move
            /\ gameBoard = [undone.b EXCEPT !.history = FullHistory(out, back)]
            /\ makeMove = Move
            /\ running = ~fresh.raised /\ ~undone.raised
            /\ events = 0
            /\ probe = NoProbe

SpecFullHistory == InitFullHistory /\ [][Next]_vars

\* C11: undo() called when the ply counter is 0, in any MoveProcessor state
\* and after any earlier sequence of applies and undos, changes nothing in
\* the board (pieces, turn, castle rights, en-passant, halfmove clock, ply,
\* hash, aggregates, history, PGN log) and raises no error.
C11_UndoAtPlyZeroIsNoOp ==
    (running /\ gameBoard.hisply = 0) =>
        \A undone \in {undo_move(World)} :
            /\ undone.running
            /\ undone.gb = gameBoard

\* what the event loop does with a board click when no promotion is pending
BoardClick(w, click) ==
    IF FromSelected(w.mv) THEN process_move(w, click)
    ELSE set_from_index_120(w, click)

\* C12: a select or submitTarget whose square lies outside the 64 playable
\* squares is rejected: the board and the selection of the move object
\* (from-square, to-square, promotion flag) are unchanged afterwards.
C12_OffBoardClickRejected ==
    (running /\ makeMove.prom = 0) =>
        \A click \in Clicks :
            mouse_pos_to_120(click) \notin PlayableSquares =>
                \A after \in {BoardClick(World, click)} :
                    /\ after.running
                    /\ after.gb = gameBoard
                    /\ after.mv.from120 = makeMove.from120
                    /\ after.mv.to120 = makeMove.to120
                    /\ after.mv.prom = makeMove.prom

Idle(mv) == mv.prom = 0 /\ ~FromSelected(mv)

\* C13: in Idle, select(square) on a playable square moves to
\* FromSelected(square) if and only if that square holds a piece (of either
\* colour, whoever is to move); selecting an EMPTY square leaves the move
\* object in Idle, and the board is unchanged either way.
C13_SelectOnlyOccupiedSquare ==
    (running /\ Idle(makeMove)) =>
        \A click \in Clicks :
            mouse_pos_to_120(click) \in PlayableSquares =>
                \A after \in {BoardClick(World, click)} :
                    /\ after.running
                    /\ after.gb = gameBoard
                    /\ IF gameBoard.pieces[mouse_pos_to_120(click)] # EMPTY
                       THEN /\ FromSelected(after.mv)
                            /\ after.mv = [makeMove EXCEPT
                                             !.from120 = mouse_pos_to_120(click)]
                       ELSE /\ Idle(after.mv)
                            /\ after.mv = makeMove

\* White to move, the black pawn on e7 selected by the first click
C13_Witness ==
    /\ running
    /\ events = 1
    /\ gameBoard.turn = WHITE
    /\ gameBoard.hisply = 0
    /\ makeMove.from120 = 85
    /\ gameBoard.pieces[85] = bP
    /\ gameBoard.pieces[55] = EMPTY

\* C14: in FromSelected(s), selecting the same square s returns the move
\* object to Idle and leaves the board (pieces, turn, ply, history, PGN log,
\* aggregates, hash) unchanged.
C14_SameSquareDeselects ==
    (running /\ makeMove.prom = 0 /\ FromSelected(makeMove)) =>
        \A click \in Clicks :
            mouse_pos_to_120(click) = makeMove.from120 =>
                \A after \in {BoardClick(World, click)} :
                    /\ after.running
                    /\ after.gb = gameBoard
                    /\ Idle(after.mv)
                    /\ after.mv = [makeMove EXCEPT !.from120 = -1]

\* after one finalized move the king on e1 is selected and a click on e1 can follow
C14_Witness ==
    /\ running
    /\ makeMove.prom = 0
    /\ makeMove.from120 = 25
    /\ gameBoard.pieces[25] = wK
    /\ gameBoard.hisply = 1
    /\ events < MaxEvents
    /\ \E click \in Clicks : mouse_pos_to_120(click) = makeMove.from120

\* a pawn of the given kind arriving on its last rank
Promotes(piece, to120) ==
    \/ piece = wP /\ RanksBrd[to120] = RANK_8
    \/ piece = bP /\ RanksBrd[to120] = RANK_1

\* C15: a non-promotion submitTarget(t) from FromSelected(f) with t a playable
\* square different from f sets cell t to the piece that was on f, sets cell f
\* to EMPTY, leaves every other one of the 120 cells unchanged, leaves castle
\* rights and en-passant square unchanged, flips turn, increases the ply
\* counter by exactly one and returns the move object to Idle.
C15_SubmitTargetMovesOnePiece ==
    (running /\ makeMove.prom = 0 /\ FromSelected(makeMove)) =>
        \A click \in Clicks :
            ( /\ mouse_pos_to_120(click) \in PlayableSquares
              /\ mouse_pos_to_120(click) # makeMove.from120
              /\ ~Promotes(gameBoard.pieces[makeMove.from120], mouse_pos_to_120(click)) ) =>
                \A after \in {BoardClick(World, click)} :
                    /\ after.running
                    /\ after.gb.pieces =
                          [gameBoard.pieces EXCEPT
                              ![makeMove.from120] = EMPTY,
                              ![mouse_pos_to_120(click)] = gameBoard.pieces[makeMove.from120]]
                    /\ after.gb.castle = gameBoard.castle
                    /\ after.gb.enPassant = gameBoard.enPassant
                    /\ after.gb.turn = 1 - gameBoard.turn
                    /\ after.gb.hisply = gameBoard.hisply + 1
                    /\ Idle(after.mv)
                    /\ after.mv.from120 = -1

\* e2 to e4 has been played from the starting position
C15_Witness ==
    /\ running
    /\ gameBoard.hisply = 1
    /\ gameBoard.pieces[55] = wP
    /\ gameBoard.pieces[35] = EMPTY
    /\ gameBoard.turn = BLACK
    /\ makeMove.from120 = -1
    /\ DecodeFrom(HistoryGet(gameBoard, 0).move) = 35
    /\ DecodeTo(HistoryGet(gameBoard, 0).move) = 55

PromotingSide(prom) == IF prom = 1 THEN WHITE ELSE BLACK

\* C16: when a white pawn is submitted to rank 8 (or a black pawn to rank 1),
\* submitTarget enters AwaitingPromotion without flipping turn or appending an
\* Undo record; the following choosePromotion(kind) places the promoting
\* side's piece of the chosen kind on the target square, leaves the
\* from-square EMPTY, appends exactly one Undo record, flips turn once and
\* returns to Idle.
C16_PromotionFinalizesOnChoice ==
    /\ (running /\ makeMove.prom = 0 /\ FromSelected(makeMove)) =>
          \A click \in Clicks :
            ( /\ mouse_pos_to_120(click) \in PlayableSquares
              /\ mouse_pos_to_120(click) # makeMove.from120
              /\ Promotes(gameBoard.pieces[makeMove.from120], mouse_pos_to_120(click)) ) =>
                \A pending \in {BoardClick(World, click)} :
                    /\ pending.running
                    /\ pending.mv.prom # 0
                    /\ PromotingSide(pending.mv.prom)
                          = PieceCol(gameBoard.pieces[makeMove.from120])
                    /\ pending.mv.from120 = makeMove.from120
                    /\ pending.mv.to120 = mouse_pos_to_120(click)
                    /\ pending.gb.turn = gameBoard.turn
                    /\ pending.gb.hisply = gameBoard.hisply
                    /\ pending.gb.history = gameBoard.history
    /\ (running /\ makeMove.prom # 0) =>
          \A inColumn \in PromColumns, index \in PromIndexes :
            \A promPiece \in {is_clicked_prom(inColumn, index, makeMove.prom)} :
              promPiece # 0 =>
                \A chosen \in {handle_prom(World, promPiece)} :
                    /\ chosen.running
                    /\ promPiece \in {wQ, wR, wB, wN, bQ, bR, bB, bN}
                    /\ PieceCol(promPiece) = PromotingSide(makeMove.prom)
                    /\ chosen.gb.pieces =
                          [gameBoard.pieces EXCEPT ![makeMove.from120] = EMPTY,
                                                   ![makeMove.to120] = promPiece]
                    /\ chosen.gb.pieces[makeMove.from120] = EMPTY
                    /\ chosen.gb.hisply = gameBoard.hisply + 1
                    /\ Len(chosen.gb.history) >= chosen.gb.hisply
                    /\ \A i \in 0..(gameBoard.hisply - 1) :
                          HistoryGet(chosen.gb, i) = HistoryGet(gameBoard, i)
                    /\ chosen.gb.turn = 1 - gameBoard.turn
                    /\ Idle(chosen.mv)
                    /\ chosen.mv.from120 = -1

\* the black pawn of e7 has reached e1 and a black piece stands there in its
\* place, one record in the history and the move object back in Idle
C16_Witness ==
    /\ running
    /\ gameBoard.hisply = 1
    /\ gameBoard.pieces[25] \in {bQ, bR, bB, bN}
    /\ gameBoard.pieces[85] = EMPTY
    /\ BitAnd(HistoryGet(gameBoard, 0).move, PROMOTED_PIECE_MASK) # 0
    /\ gameBoard.turn = BLACK
    /\ makeMove = [Move EXCEPT !.enPassant = makeMove.enPassant]

\* C17: undoing a finalized promotion puts a pawn of the promoting side's
\* colour back on the move's from-square and puts the captured piece (EMPTY
\* when nothing was captured) back on the promotion square, for white and
\* for black promotions.
C17_UndoPromotionRestoresPawn ==
    (running /\ makeMove.prom # 0) =>
        \A promPiece \in PromChoices(makeMove.prom) :
            \A chosen \in {handle_prom(World, promPiece)} :
                chosen.running =>
                    \A undone \in {undo_move(chosen)} :
                        /\ undone.gb.pieces[makeMove.from120]
                              = (IF makeMove.prom = 1 THEN wP ELSE bP)
                        /\ undone.gb.pieces[makeMove.to120] = makeMove.capturedPiece

LowerFileLetter == <<"a", "b", "c", "d", "e", "f", "g", "h">>

\* a playable square as lowercase file letter, rank digit and one space
SquareToken(sq) ==
    <<LowerFileLetter[((sq - 21) % 10) + 1]>> \o str(((sq - 21) \div 10) + 1) \o <<" ">>

\* C18: the PGN token appended for a finalized move is the destination square
\* written as lowercase file letter plus rank digit followed by one space and
\* nothing else; for e2 to e4 from the starting position it is "e4 ".
C18_PgnTokenIsDestinationSquare ==
    /\ (running /\ makeMove.prom = 0 /\ FromSelected(makeMove)) =>
          \A click \in Clicks :
            mouse_pos_to_120(click) \in PlayableSquares =>
              \A after \in {BoardClick(World, click)} :
                (after.running /\ after.gb.hisply = gameBoard.hisply + 1) =>
                    /\ Len(after.gb.pgnArr) = Len(gameBoard.pgnArr) + 1
                    /\ after.gb.pgnArr[Len(after.gb.pgnArr)]
                          = SquareToken(mouse_pos_to_120(click))
    /\ (running /\ makeMove.prom # 0) =>
          \A promPiece \in PromChoices(makeMove.prom) :
            \A chosen \in {handle_prom(World, promPiece)} :
              (chosen.running /\ chosen.gb.hisply = gameBoard.hisply + 1) =>
                    /\ Len(chosen.gb.pgnArr) = Len(gameBoard.pgnArr) + 1
                    /\ chosen.gb.pgnArr[Len(chosen.gb.pgnArr)]
                          = SquareToken(makeMove.to120)

\* the token process_pgn writes for the move held in history slot i
TokenOfSlot(b, i) ==
    (IF i % 2 = 0 THEN str((i \div 2) + 1) \o <<".", " ">> ELSE <<>>)
        \o TilesName(DecodeTo(HistoryGet(b, i).move)) \o <<" ">>

RECURSIVE Concat(_)
Concat(tokens) ==
    IF tokens = <<>> THEN <<>> ELSE Head(tokens) \o Concat(Tail(tokens))

\* C19: in every reachable state the PGN log mirrors the history: the number
\* of tokens in pgnArr equals the ply counter, token i is the token of the
\* i-th move currently in history, the display string pgn is the
\* concatenation of those tokens in order, and an undo that reverts a move
\* removes exactly the last token.
C19_PgnLogMirrorsHistory ==
    running =>
        /\ Len(gameBoard.pgnArr) = gameBoard.hisply
        /\ \A i \in 0..(gameBoard.hisply - 1) :
              gameBoard.pgnArr[i + 1] = TokenOfSlot(gameBoard, i)
        /\ gameBoard.pgn = Concat(gameBoard.pgnArr)
        /\ gameBoard.hisply > 0 =>
              \A undone \in {undo_move(World)} :
                  /\ undone.running
                  /\ undone.gb.hisply = gameBoard.hisply - 1
                  /\ undone.gb.pgnArr
                        = SubSeq(gameBoard.pgnArr, 1, Len(gameBoard.pgnArr) - 1)

\* two moves were finalized and the second has been undone
C19_Witness ==
    /\ running
    /\ gameBoard.hisply = 1
    /\ Len(gameBoard.history) = 2
    /\ Len(gameBoard.pgnArr) = 1
    /\ gameBoard.pgn = gameBoard.pgnArr[1]

\* C21: the halfmove clock counts the half-moves since the last pawn move or
\* capture: every finalized pawn move and every finalized capture (promotion
\* path included) resets it to 0, and every other finalized move increases
\* it by one.
C21_HalfmoveClockCounts ==
    /\ (running /\ makeMove.prom = 0 /\ FromSelected(makeMove)) =>
          \A click \in Clicks :
            ( /\ mouse_pos_to_120(click) \in PlayableSquares
              /\ mouse_pos_to_120(click) # makeMove.from120 ) =>
              \A after \in {BoardClick(World, click)} :
                (after.running /\ after.gb.hisply = gameBoard.hisply + 1) =>
                    after.gb.fiftyMoveClock =
                        IF \/ gameBoard.pieces[makeMove.from120] \in {wP, bP}
                           \/ gameBoard.pieces[mouse_pos_to_120(click)] # EMPTY
                        THEN 0
                        ELSE gameBoard.fiftyMoveClock + 1
    /\ (running /\ makeMove.prom # 0) =>
          \A promPiece \in PromChoices(makeMove.prom) :
            \A chosen \in {handle_prom(World, promPiece)} :
              (chosen.running /\ chosen.gb.hisply = gameBoard.hisply + 1) =>
                    chosen.gb.fiftyMoveClock = 0

\* the board that shares piece placement, turn, castle rights and en-passant
\* square with b and has every other field as a new Board object has it
SameFourComponents(b) ==
    [BoardFields EXCEPT !.pieces = b.pieces, !.turn = b.turn,
                        !.castle = b.castle, !.enPassant = b.enPassant]

\* C22: the position hash is a function of piece placement, turn, castle
\* rights and en-passant square only: a board and any board that agrees with
\* it on these four components have equal hashes whatever their halfmove
\* clock, full-move number, ply counter, history, PGN log or aggregates.
C22_HashDependsOnFourComponents ==
    /\ generate_pos_key(SameFourComponents(gameBoard)) = generate_pos_key(gameBoard)
    /\ \A clock \in 0..2, ply \in 0..2 :
          generate_pos_key([gameBoard EXCEPT !.fiftyMoveClock = clock,
                                             !.fullMoves = ply,
                                             !.hisply = ply,
                                             !.posKey = {}])
            = generate_pos_key(gameBoard)

\* Black to move after two finalized moves and one undo: ply counter, history,
\* PGN log and aggregates all differ from those of a new board
C22_Witness ==
    /\ running
    /\ gameBoard.turn = BLACK
    /\ gameBoard.hisply = 1
    /\ Len(gameBoard.history) = 2
    /\ gameBoard.pgn # <<>>
    /\ gameBoard.pceNum # BoardFields.pceNum
    /\ gameBoard # SameFourComponents(gameBoard)

\* C23: in every reachable state kingSquare[white] and kingSquare[black] are
\* padded indices of cells that hold the white king and the black king, so
\* the two king-square assertions of check_board hold after any sequence of
\* select, submitTarget, choosePromotion and undo.
C23_KingSquaresHoldKings ==
    running =>
        /\ gameBoard.pieces[gameBoard.kingSquare[WHITE]] = wK
        /\ gameBoard.pieces[gameBoard.kingSquare[BLACK]] = bK

(***************************************************************************)
(* Board.read_fen, Board.update_materials and Board.check_board called in  *)
(* the order of Board.__init__ (lines 73-77), on the fields of a new Board *)
(* object and for a notation string drawn from FenInputs.                  *)
(***************************************************************************)
\* the two kings alone; the starting position; a white pawn on d2 followed by
\* a character that is no piece letter, digit or '/'; such a character first
FenPlacements ==
    { <<"4", "k", "3", "/", "8", "/", "8", "/", "8", "/", "8", "/", "8", "/", "8", "/",
        "4", "K", "3">>,
      SubSeq(STARTING_POS_FEN, 1, 43),
      <<"4", "k", "3", "/", "8", "/", "8", "/", "8", "/", "8", "/", "8", "/",
        "3", "P", "x", "3", "/", "4", "K", "3">>,
      <<"x", "3", "k", "3", "/", "8", "/", "8", "/", "8", "/", "8", "/", "8", "/", "8", "/",
        "4", "K", "3">> }

FenColours == {<<"w">>, <<"b">>}

FenCastlings == {<<"-">>, <<"K">>, <<"Q", "k">>, <<"K", "Q", "k", "q">>}

FenEnPassants == {<<"-">>, <<"e", "6">>, <<"e", "3">>}

FenInputs ==
    {placement \o <<" ">> \o colour \o <<" ">> \o castling \o <<" ">> \o enPassant
        \o <<" ", "0", " ", "1">> :
        placement \in FenPlacements, colour \in FenColours,
        castling \in FenCastlings, enPassant \in FenEnPassants}

InitFen ==
    /\ gameBoard = BoardFields
    /\ makeMove = Move
    /\ running = TRUE
    /\ events = 0
    /\ probe = NoProbe

CallReadFen ==
    /\ running
    /\ probe.op = "none"
    /\ \E fen \in FenInputs :
         \E r \in {read_fen(gameBoard, fen)} :
            /\ gameBoard' = r.b
            /\ running' = ~r.raised
            /\ probe' = [NoProbe EXCEPT !.op = "read_fen", !.fen = fen]
    /\ events' = events + 1
    /\ UNCHANGED makeMove

CallUpdateMaterials ==
    /\ running
    /\ probe.op = "read_fen"
    /\ \E r \in {update_materials(gameBoard)} :
            /\ gameBoard' = r.b
            /\ running' = ~r.raised
    /\ probe' = [probe EXCEPT !.op = "update_materials"]
    /\ events' = events + 1
    /\ UNCHANGED makeMove

CallCheckBoard ==
    /\ running
    /\ probe.op = "update_materials"
    /\ \E r \in {check_board(gameBoard)} :
            /\ gameBoard' = r.b
            /\ running' = ~r.raised
    /\ probe' = [probe EXCEPT !.op = "check_board"]
    /\ events' = events + 1
    /\ UNCHANGED makeMove

NextFen == CallReadFen \/ CallUpdateMaterials \/ CallCheckBoard

SpecFen == InitFen /\ [][NextFen]_vars

\* the fields of a notation string: what follows its n-th space, up to the next
RECURSIVE FenAfterSpaces(_, _)
FenAfterSpaces(fen, n) ==
    IF n = 0 \/ fen = <<>> THEN fen
    ELSE FenAfterSpaces(Tail(fen), IF Head(fen) = " " THEN n - 1 ELSE n)

RECURSIVE FenUpToSpace(_)
FenUpToSpace(fen) ==
    IF fen = <<>> \/ Head(fen) = " " THEN <<>>
    ELSE <<Head(fen)>> \o FenUpToSpace(Tail(fen))

FenField(fen, n) == FenUpToSpace(FenAfterSpaces(fen, n))

\* the en-passant squares the claim lets check_board accept; the side to move
\* is the one check_board itself reads (board.side, the active-colour field)
EnPassantAccepted(b) ==
    \/ b.enPassant = NO_SQUARE
    \/ RanksBrd[b.enPassant] = RANK_6 /\ b.side = WHITE
    \/ RanksBrd[b.enPassant] = RANK_3 /\ b.side = BLACK

\* C24: the en-passant assertion of check_board accepts exactly the boards
\* whose en-passant square is NO_SQUARE, or lies on rank 6 with white to
\* move, or lies on rank 3 with black to move, and stops on every other one
\* (every other assertion holds on the boards read here).
C24_EnPassantAssertion ==
    probe.op = "check_board" => (running <=> EnPassantAccepted(gameBoard))

\* C25: after read_fen the castle rights equal exactly the set named by the
\* castling field: the bit of each of K, Q, k, q is set iff that letter is
\* present, and the field '-' yields no rights (value 0).
C25_CastleRightsFromField ==
    (running /\ probe.op = "read_fen") =>
        gameBoard.castle =
            (IF "K" \in Range(FenField(probe.fen, 2)) THEN WKCA ELSE 0)
          + (IF "Q" \in Range(FenField(probe.fen, 2)) THEN WQCA ELSE 0)
          + (IF "k" \in Range(FenField(probe.fen, 2)) THEN BKCA ELSE 0)
          + (IF "q" \in Range(FenField(probe.fen, 2)) THEN BQCA ELSE 0)

\* C26: after read_fen the board's turn, the side to move that move
\* application, attack detection and the position hash use, is white when the
\* active-colour field is 'w' and black when it is 'b'.
C26_TurnFromActiveColour ==
    (running /\ probe.op = "read_fen") =>
        gameBoard.turn = (IF FenField(probe.fen, 1) = <<"w">> THEN WHITE ELSE BLACK)

\* C27: parsing a notation string whose piece-placement field contains a
\* character that is not a piece letter, a digit 1..8 or '/' fails: no board
\* comes out of read_fen for it.
C27_UnexpectedCharacterFails ==
    ( /\ probe.op = "read_fen"
      /\ \E char \in Range(FenField(probe.fen, 0)) :
            char \notin FenPieceChars \cup FenDigits \cup {"/"} )
    => ~running

(***************************************************************************)
(* bitboards.py: pop_bit.  A 64-bit value is the set of its set bits; the  *)
(* 32-bit product is computed on four 8-bit limbs, least significant first. *)
(***************************************************************************)
BitTable ==
    <<63, 30, 3, 32, 25, 41, 22, 33, 15, 50, 42, 13, 11, 53, 19, 34, 61, 29, 2,
      51, 21, 43, 45, 10, 18, 47, 1, 54, 9, 57, 0, 35, 62, 31, 40, 4, 49, 5, 52,
      26, 60, 6, 23, 44, 46, 27, 56, 16, 7, 39, 48, 24, 59, 14, 12, 55, 38, 28,
      58, 20, 37, 17, 36, 8>>

\* ull(value - 1): the lowest set bit is cleared and every bit below it is
\* set; 0 - 1 wraps to all 64 bits
MinusOne(bitboard) ==
    IF bitboard = {} THEN 0..63
    ELSE (bitboard \ {Lowest(bitboard)}) \cup (0..(Lowest(bitboard) - 1))

\* uint((b.value & 0xffffffff) ^ (b.value >> 32))
Fold(b) == Xor({i \in b : i < 32}, {i - 32 : i \in {j \in b : j >= 32}})

\* bits 8j .. 8j+7 of a 32-bit value as a number in 0..255
Limb(bits, j) ==
    LET Bit(i) == IF (8 * j + i) \in bits THEN Pow2(i) ELSE 0
    IN Bit(0) + Bit(1) + Bit(2) + Bit(3) + Bit(4) + Bit(5) + Bit(6) + Bit(7)

\* the limbs of 0x783a9b23
DeBruijnLimbs == <<35, 155, 58, 120>>

\* a product whose carries between limbs are dropped
TopLimbOfProductNoCarry(fold) ==
    LET f == [j \in 0..3 |-> Limb(fold, j)]
        c == [j \in 0..3 |-> DeBruijnLimbs[j + 1]]
    IN (f[0] * c[3] + f[1] * c[2] + f[2] * c[1] + f[3] * c[0]) % 256

\* bits 24..31 of uint(fold.value * 0x783a9b23): the product modulo 2^32
TopLimbOfProduct(fold) ==
    LET f == [j \in 0..3 |-> Limb(fold, j)]
        c == [j \in 0..3 |-> DeBruijnLimbs[j + 1]]
        r0 == f[0] * c[0]
        r1 == f[0] * c[1] + f[1] * c[0] + (r0 \div 256)
        r2 == f[0] * c[2] + f[1] * c[1] + f[2] * c[0] + (r1 \div 256)
        r3 == f[0] * c[3] + f[1] * c[2] + f[2] * c[1] + f[3] * c[0] + (r2 \div 256)
    IN r3 % 256

\* returns the tuple (BitTable[...], bitboard); the argument object is not
\* modified, the name bitboard is bound to a new ull
pop_bit(bitboard) ==
    LET b == Xor(bitboard, MinusOne(bitboard))
        fold == Fold(b)
    IN [index |-> BitTable[(TopLimbOfProduct(fold) \div 4) + 1],
        bitboard |-> bitboard \cap MinusOne(bitboard)]

\* the largest number of set bits in the bitboards pop_bit is called on
MaxPopBits == 2

RECURSIVE BitSetsUpTo(_)
BitSetsUpTo(n) ==
    IF n = 0 THEN {{}}
    ELSE {bits \cup {i} : bits \in BitSetsUpTo(n - 1), i \in 0..63}

PopBitInputs == BitSetsUpTo(MaxPopBits) \ {{}}

\* the argument is held in the BOTH pawn bitboard of an otherwise new board
InitPop ==
    /\ \E bits \in PopBitInputs \cup {0..63} :
          gameBoard = [BoardFields EXCEPT !.pawns[BOTH] = bits]
    /\ makeMove = Move
    /\ running = TRUE
    /\ events = 0
    /\ probe = NoProbe

CallPopBit ==
    /\ probe.op = "none"
    /\ \E r \in {pop_bit(gameBoard.pawns[BOTH])} :
          probe' = [NoProbe EXCEPT !.op = "pop_bit", !.mapped = r.index,
                                   !.bitboard = r.bitboard]
    /\ events' = events + 1
    /\ UNCHANGED <<gameBoard, makeMove, running>>

NextPop == CallPopBit

SpecPop == InitPop /\ [][NextPop]_vars

\* C28: for every non-zero 64-bit bitboard, pop_bit returns the dense index
\* (0..63) of its least-significant set bit together with the bitboard in
\* which exactly that bit has been cleared, the fold and the multiplication
\* by 0x783a9b23 being taken modulo 2^32 before the 26-bit shift and the
\* BitTable lookup.
C28_PopBitReturnsLowestBit ==
    probe.op = "pop_bit" =>
        /\ probe.mapped \in 0..63
        /\ probe.mapped \in gameBoard.pawns[BOTH]
        /\ \A other \in gameBoard.pawns[BOTH] : probe.mapped <= other
        /\ probe.bitboard = gameBoard.pawns[BOTH] \ {probe.mapped}

\* bit 63 alone (the fold and the product both overflow 32 bits on the way)
\* and bit 40 popped from under bit 63
C28_Witness ==
    /\ probe.op = "pop_bit"
    /\ gameBoard.pawns[BOTH] = {40, 63}
    /\ probe.mapped = 40
    /\ probe.bitboard = {63}

\* C29: whenever the move object is in FromSelected(s), with no promotion
\* pending, cell s of the current board holds a piece (neither EMPTY nor
\* OFF_BOARD), in every reachable state and whatever operations (undo
\* included) occurred while the square was selected.
C29_SelectedSquareHoldsPiece ==
    (running /\ makeMove.prom = 0 /\ FromSelected(makeMove)) =>
        gameBoard.pieces[makeMove.from120] \notin {EMPTY, OFF_BOARD}

\* a pawn advancing two ranks from its starting rank: white from rank 2 to
\* rank 4, black from rank 7 to rank 5, on its file
PawnDoubleStep(piece, from120, to120) ==
    \/ piece = wP /\ RanksBrd[from120] = RANK_2 /\ to120 = from120 + 20
    \/ piece = bP /\ RanksBrd[from120] = RANK_7 /\ to120 = from120 - 20

\* C30: the pawn-double-step flag of a recorded move is set exactly when the
\* move is a pawn advancing two ranks from its starting rank (white from rank
\* 2 to rank 4, black from rank 7 to rank 5), and is clear for every other
\* move.
C30_PawnStartFlagMeansDoubleStep ==
    /\ (running /\ makeMove.prom = 0 /\ FromSelected(makeMove)) =>
          \A click \in Clicks :
            \A applied \in {process_move(World, click)} :
              (applied.running /\ applied.gb.hisply = gameBoard.hisply + 1) =>
                 ((BitAnd(LastMove(applied), PAWN_START_MASK) # 0)
                    <=> PawnDoubleStep(gameBoard.pieces[makeMove.from120],
                                       makeMove.from120, mouse_pos_to_120(click)))
    /\ (running /\ makeMove.prom # 0) =>
          \A promPiece \in PromChoices(makeMove.prom) :
            \A chosen \in {handle_prom(World, promPiece)} :
              (chosen.running /\ chosen.gb.hisply = gameBoard.hisply + 1) =>
                 ((BitAnd(LastMove(chosen), PAWN_START_MASK) # 0)
                    <=> PawnDoubleStep(makeMove.fromPiece, makeMove.from120,
                                       makeMove.to120))


\* a castling move: a king going two files along its rank
CastlingMove(piece, from120, to120) ==
    /\ piece \in {wK, bK}
    /\ to120 \in {from120 + 2, from120 - 2}

\* C31: the castling flag of a recorded move is set exactly when the move was
\* a castling move, and is clear for every other move.
C31_CastlingFlagMeansCastling ==
    /\ (running /\ makeMove.prom = 0 /\ FromSelected(makeMove)) =>
          \A click \in Clicks :
            \A applied \in {process_move(World, click)} :
              (applied.running /\ applied.gb.hisply = gameBoard.hisply + 1) =>
                 ((BitAnd(LastMove(applied), CASTLING_MASK) # 0)
                    <=> CastlingMove(gameBoard.pieces[makeMove.from120],
                                     makeMove.from120, mouse_pos_to_120(click)))
    /\ (running /\ makeMove.prom # 0) =>
          \A promPiece \in PromChoices(makeMove.prom) :
            \A chosen \in {handle_prom(World, promPiece)} :
              (chosen.running /\ chosen.gb.hisply = gameBoard.hisply + 1) =>
                 ((BitAnd(LastMove(chosen), CASTLING_MASK) # 0)
                    <=> CastlingMove(makeMove.fromPiece, makeMove.from120,
                                     makeMove.to120))


(***************************************************************************)
(* The two padded-to-dense maps read at every padded index, the border     *)
(* included.                                                               *)
(***************************************************************************)
ReadPaddedMap120To64 ==
    /\ probe = NoProbe
    /\ \E p \in 0..119 :
          probe' = [NoProbe EXCEPT !.op = "padded map120To64", !.square = p,
                                   !.mapped = map120To64[p]]
    /\ UNCHANGED <<gameBoard, makeMove, running, events>>

ReadPaddedSquare120ToSquare64 ==
    /\ probe = NoProbe
    /\ \E p \in 0..119 :
          probe' = [NoProbe EXCEPT !.op = "padded square120ToSquare64", !.square = p,
                                   !.mapped = square120ToSquare64[p]]
    /\ UNCHANGED <<gameBoard, makeMove, running, events>>

NextPadded == ReadPaddedMap120To64 \/ ReadPaddedSquare120ToSquare64

SpecPadded == InitMap /\ [][NextPadded]_vars

\* C32: map120To64 and the module-level square120ToSquare64 map every
\* off-board padded index to the sentinel value 65, so no off-board padded
\* index maps to a valid dense square 0..63.
C32_OffBoardMapsToSentinel ==
    (/\ probe.op \in {"padded map120To64", "padded square120ToSquare64"}
     /\ probe.square \notin PlayableSquares)
        => (probe.mapped = 65 /\ probe.mapped \notin 0..63)


\* main.py lines 330-336: the promotion branch of a board click
PromotionClick(w, inColumn, index) ==
    LET promPiece == is_clicked_prom(inColumn, index, w.mv.prom)
    IN IF promPiece # 0 THEN handle_prom(w, promPiece) ELSE w

\* a dispatch that looks at the selected square before the pending promotion
MainBoardClickSelectionFirst(w, click, inColumn, index) ==
    IF FromSelected(w.mv) THEN process_move(w, click)
    ELSE IF w.mv.prom # 0 THEN PromotionClick(w, inColumn, index)
    ELSE set_from_index_120(w, click)

\* main.py lines 328-344: one click on the board image; click is the square
\* under the mouse, inColumn and index its place relative to the promotion menu
MainBoardClick(w, click, inColumn, index) ==
    IF w.mv.prom # 0 THEN PromotionClick(w, inColumn, index)
    ELSE BoardClick(w, click)

\* the click is on one of the four pieces of the promotion menu
PicksPromotionPiece(inColumn, index) == inColumn /\ index \in 0..3

\* C33: while a promotion is pending, a board click that does not pick one of
\* the four promotion pieces changes neither the board nor the move object:
\* no select, deselect or submitTarget takes effect.
C33_PendingPromotionIgnoresOtherClicks ==
    (running /\ makeMove.prom # 0) =>
        \A click \in Clicks, inColumn \in PromColumns, index \in PromIndexes :
            ~PicksPromotionPiece(inColumn, index) =>
                \A after \in {MainBoardClick(World, click, inColumn, index)} :
                    /\ after.gb = gameBoard
                    /\ after.mv = makeMove
                    /\ after.running

\* the white pawn of e2 submitted to e8 and waiting for the choice, at least
\* one click later
C33_Witness ==
    /\ running
    /\ makeMove.prom = 1
    /\ makeMove.from120 = 35
    /\ makeMove.to120 = 95
    /\ gameBoard.pieces[95] = wP
    /\ events >= 3


\* C34: running check_board on a consistent board (one it accepts) leaves
\* every board field unchanged; in particular the three pawn bitboards have
\* the same values after the check, and after Board construction, as before.
C34_CheckBoardChangesNothing ==
    (probe.op = "update_materials" /\ running) =>
        \A checked \in {check_board(gameBoard)} :
            ~checked.raised =>
                /\ checked.b.pawns = gameBoard.pawns
                /\ checked.b = gameBoard


\* undo() called n times in a row, stopping at an exception
RECURSIVE UndoTimes(_, _)
UndoTimes(w, n) ==
    IF n = 0 \/ ~w.running THEN w ELSE UndoTimes(undo_move(w), n - 1)

\* C35: from any reachable state in which no promotion is pending, calling
\* undo() as many times as the current ply counter restores the piece array
\* to the starting position with turn = white, ply = 0 and an empty PGN log,
\* whatever interleaving of select, submitTarget, choosePromotion and undo
\* produced that state.
C35_UndoAllRestoresStart ==
    (running /\ makeMove.prom = 0) =>
        \A undone \in {UndoTimes(World, gameBoard.hisply)} :
            /\ undone.running
            /\ undone.gb.pieces = Board.b.pieces
            /\ undone.gb.turn = WHITE
            /\ undone.gb.hisply = 0
            /\ undone.gb.pgnArr = <<>>
            /\ undone.gb.pgn = <<>>


\* turn is white exactly when the ply counter is even
TurnPlyParity ==
    running => ((gameBoard.turn = WHITE) <=> (gameBoard.hisply % 2 = 0))

\* turn and ply change together or not at all, one ply at a time
TurnPlyStep ==
    running' =>
        \/ gameBoard'.turn = gameBoard.turn /\ gameBoard'.hisply = gameBoard.hisply
        \/ /\ gameBoard'.turn = 1 - gameBoard.turn
           /\ gameBoard'.hisply \in {gameBoard.hisply + 1, gameBoard.hisply - 1}

\* C36: in every state reachable from the starting position, turn is white
\* exactly when the ply counter is even: each finalized move flips turn and
\* increments ply together, each effective undo flips turn and decrements ply
\* together, and no other operation changes either.
C36_TurnFollowsPlyParity == []TurnPlyParity /\ [][TurnPlyStep]_vars

\* two moves finalized and the second one undone: one ply, Black to move
C36_Witness ==
    /\ running
    /\ gameBoard.hisply = 1
    /\ Len(gameBoard.history) = 2
    /\ gameBoard.turn = BLACK


\* castle rights are all four and there is no en-passant square
RightsUntouched(b) == b.castle = 15 /\ b.enPassant = NO_SQUARE

\* C37: for a board built from the standard starting position, castle rights
\* stay 15 and the en-passant square stays NO_SQUARE in every reachable
\* state: no select, submitTarget, choosePromotion or undo changes either,
\* including king moves, rook moves and pawn double steps.
C37_RightsNeverChange ==
    /\ running => RightsUntouched(gameBoard)
    /\ \A i \in 1..Len(gameBoard.history) :
          gameBoard.history[i].castle = 15 /\ gameBoard.history[i].enPassant = NO_SQUARE

\* the e-pawn has made its double step, the white king has then moved and
\* that king move has been undone
C37_Witness ==
    /\ running
    /\ gameBoard.hisply = 1
    /\ Len(gameBoard.history) = 2
    /\ gameBoard.pieces[55] = wP
    /\ gameBoard.pieces[25] = wK
    /\ DecodeFrom(gameBoard.history[2].move) = 25
    /\ DecodeFrom(gameBoard.history[1].move) = 35
    /\ gameBoard.history[1].castle = 15

\* the rook of a1 has gone to e4 and the move has been undone
C37_RookMoveUndone ==
    /\ running
    /\ gameBoard.hisply = 0
    /\ Len(gameBoard.history) = 1
    /\ DecodeFrom(gameBoard.history[1].move) = 21
    /\ DecodeTo(gameBoard.history[1].move) = 55
    /\ gameBoard.pieces[21] = wR

(***************************************************************************)
(* The board after the black pawns of a7 and b7 have each been promoted on *)
(* rank 1 with White to move and the promotion undone: undo_move puts a    *)
(* white pawn back (lines 220-224), so ten white pawns stand on the board. *)
(***************************************************************************)
TwoPawnsTurned(b) == [b EXCEPT !.pieces[81] = wP, !.pieces[82] = wP]

\* the world handle_prom hands to update_history for b7 to b1, queen chosen
PromotionOfB7(b) ==
    [gb |-> [b EXCEPT !.pieces[81] = wP, !.pieces[82] = EMPTY, !.pieces[22] = bQ,
                      !.turn = BLACK],
     mv |-> [Move EXCEPT !.from120 = 82, !.to120 = 22, !.capturedPiece = wN,
                         !.fromPiece = bP, !.prom = 2, !.promPiece = bQ],
     running |-> TRUE]

InitTenPawns ==
    \E fresh \in {Board} :
      \E promoted \in {update_history(PromotionOfB7(fresh.b))} :
        \E undone \in {update_materials(TwoPawnsTurned(fresh.b))} :   \* the last undo_move
          /\ gameBoard = [undone.b EXCEPT !.history = <<HistoryGet(promoted.gb, 0)>>]
          /\ makeMove = Move
          /\ running = ~fresh.raised /\ ~undone.raised
          /\ events = 0
          /\ probe = NoProbe

SpecTenPawns == InitTenPawns /\ [][Next]_vars

\* C38: in every reachable state the count of each of the twelve piece types
\* found by the aggregate rescan is at most 10, so update_materials never
\* writes past the 10-slot per-piece-type square list (pList).
C38_AtMostTenOfEachPiece ==
    \A piece \in 1..12 : CountOf(gameBoard.pieces, {piece}) <= 10


(***************************************************************************)
(* The board after 2048 finalized moves, the knight of g1 going to f3 and  *)
(* back 1024 times: the history holds its full capacity of records.        *)
(***************************************************************************)
\* the token process_pgn appends at ply h (0-based) of the knight's walk
KnightPgnToken(b, h) ==
    process_pgn([gb |-> [b EXCEPT !.hisply = h, !.pgnArr = <<>>, !.pgn = <<>>],
                 mv |-> [Move EXCEPT !.to120 = IF h % 2 = 0 THEN 46 ELSE 27],
                 running |-> TRUE]).gb.pgn

\* gameBoard.pgn += pgnInstance over the tokens lo .. hi - 1 (1-based)
RECURSIVE JoinTokens(_, _, _)
JoinTokens(tokens, lo, hi) ==
    IF hi <= lo THEN <<>>
    ELSE IF hi - lo = 1 THEN tokens[lo]
    ELSE LET mid == (lo + hi) \div 2
         IN JoinTokens(tokens, lo, mid) \o JoinTokens(tokens, mid, hi)

\* the board after n moves of the walk, n even; moved is the board as the
\* last process_move left it
BoardAfterKnightMoves(moved, out, back, n) ==
    LET tokens == [i \in 1..n |-> KnightPgnToken(moved, i - 1)]
    IN [moved EXCEPT !.hisply = n,
                     !.history = SubSeq(FullHistory(out, back), 1, n),
                     !.pgnArr = tokens,
                     !.pgn = JoinTokens(tokens, 1, n + 1)]

InitAtCapacity ==
    \E fresh \in {Board} :
      \E out \in {update_history(KnightOut(fresh.b))} :
        \E back \in {update_history(KnightBack(fresh.b))} :
          \* the last process_move: update_materials with Black to move
          \* (line 185), then the turn flip (line 199)
          \E moved \in {update_materials([fresh.b EXCEPT !.turn = BLACK])} :
            /\ gameBoard = BoardAfterKnightMoves([moved.b EXCEPT !.turn = WHITE],
                                                 out, back, HistoryCapacity)
            /\ makeMove = Move
            /\ running = ~fresh.raised /\ ~moved.raised
            /\ events = 0
            /\ probe = NoProbe

\* the board clicks of the event loop
NextAtCapacity == Select \/ SubmitTarget \/ ChoosePromotion

SpecAtCapacity == InitAtCapacity /\ [][NextAtCapacity]_vars

\* C39: if a move is submitted when the history already holds its full
\* capacity of Undo records (ply counter = 2048), the operation fails with an
\* error and leaves the board as it was before the call: piece array, turn,
\* ply counter and PGN log are all unchanged.
C39_SubmitAtCapacityChangesNothing ==
    (/\ running /\ makeMove.prom = 0 /\ FromSelected(makeMove)
     /\ gameBoard.hisply = HistoryCapacity) =>
        \A click \in Clicks :
          ( /\ mouse_pos_to_120(click) \in PlayableSquares
            /\ mouse_pos_to_120(click) # makeMove.from120
            /\ ~Promotes(gameBoard.pieces[makeMove.from120], mouse_pos_to_120(click)) ) =>
              \A failed \in {process_move(World, click)} :
                  /\ ~failed.running
                  /\ failed.gb.pieces = gameBoard.pieces
                  /\ failed.gb.turn = gameBoard.turn
                  /\ failed.gb.hisply = gameBoard.hisply
                  /\ failed.gb.pgnArr = gameBoard.pgnArr
                  /\ failed.gb.pgn = gameBoard.pgn

====
